---- MODULE Spec2Model ----
(***************************************************************************)
(* A model of the react-agent context window (ContextManager), its token   *)
(* accounting (TokenTracker) and the agent / subagent state built on them. *)
(*                                                                         *)
(* Python values are modelled directly: a message dict is a TLA+ record    *)
(* whose DOMAIN is the set of keys present, a list is a sequence, a str is *)
(* a string.  None and "" are both falsy and the code only tests the       *)
(* truthiness of optional arguments, so an absent optional str is "" and   *)
(* an absent optional list is << >>.                                       *)
(***************************************************************************)
EXTENDS Integers, Sequences, FiniteSets, TLC

VARIABLES
    win,        \* the ContextManager objects of the window scenarios, by name
    last,       \* the last call made on a window and what it returned
    file,       \* the JSON document written by export_context, or NoFile
    exported,   \* the ContextManager as it was when file was written
    snap,       \* the list a caller holds from get_messages(), or << >>
    winAddr,    \* object identity of the dicts in win[w].messages (same index)
    snapAddr,   \* object identity of the dicts in snap (same index)
    nextAddr,   \* the next fresh object identity
    cms,        \* the ContextManager objects agents own; an object is its index
    tts,        \* the TokenTracker objects agents own; an object is its index
    agent,      \* the ReactAgent
    subs,       \* the Subagent objects created so far, in creation order
    frame,      \* per agent (0: the ReactAgent, i: subs[i]) the run() in flight
    ret,        \* per agent the outcome of the last call made on it
    solo        \* per agent its state had only its own calls been executed

windowVars == <<win, last, file, exported, snap, winAddr, snapAddr, nextAddr>>
agentVars == <<cms, tts, agent, subs, frame, ret, solo>>
vars == <<windowVars, agentVars>>

----------------------------------------------------------------------------
(* Bounds of the model *)

MaxMsgs == 4        \* add_message is explored up to this many live messages
MaxKeep == 1        \* largest keep_first_n / keep_last_n explored
MaxSeen == 5        \* add_message calls explored in one window lifetime
MaxCompactions == 2 \* effective compactions explored in one window lifetime
MaxSnapMsgs == 2    \* add_message calls explored while a caller holds a snapshot
MaxSnapLen == 3     \* longest list a caller grows its snapshot to
MaxAddr == 4        \* dict objects created while a caller holds a snapshot
MaxFileMsgs == 2    \* add_message calls per window explored around export / import
MaxSubagents == 2   \* Subagent objects created under the ReactAgent
MaxUsage == 3       \* records in a tracker's usage history
MaxAgentSeen == 9   \* messages the agents' windows see, all agents together

----------------------------------------------------------------------------
(* class MessageRole *)

SYSTEM == "system"
USER == "user"
ASSISTANT == "assistant"
TOOL == "tool"

----------------------------------------------------------------------------
(* Python list slicing: seq[lo:hi] with negative bounds counted from the end *)

PyBound(i, n) == IF i < 0 THEN (IF n + i < 0 THEN 0 ELSE n + i)
                 ELSE (IF i > n THEN n ELSE i)

PySlice(s, lo, hi) ==
    LET a == PyBound(lo, Len(s))
        b == PyBound(hi, Len(s))
    IN  IF a >= b THEN << >> ELSE SubSeq(s, a + 1, b)

\* seq[:hi]
PySliceTo(s, hi) == PySlice(s, 0, hi)

\* seq[lo:]
PySliceFrom(s, lo) == PySlice(s, lo, Len(s))

----------------------------------------------------------------------------
(* TokenTracker: counting *)

\* tiktoken's encoder is a library outside the repository: a deterministic
\* total function of the text, taken here as one token per character.
count_tokens(text) == Len(text)

\* str(value) of a message field; the fields explored are all str
PyStr(value) == value

\* the inner loop over message.items()
RECURSIVE FieldTokens(_, _)
FieldTokens(message, keys) ==
    IF keys = {} THEN 0
    ELSE LET k == CHOOSE key \in keys : TRUE
         IN  count_tokens(PyStr(message[k])) + FieldTokens(message, keys \ {k})

MessageFormattingTokens == 4
ReplyPrimingTokens == 2

\* a count without the tokens that prime the reply
RECURSIVE count_messages_tokens_unprimed(_)
count_messages_tokens_unprimed(messages) ==
    IF messages = << >> THEN 0
    ELSE MessageFormattingTokens
         + FieldTokens(Head(messages), DOMAIN Head(messages))
         + count_messages_tokens_unprimed(Tail(messages))

RECURSIVE count_messages_tokens(_)
count_messages_tokens(messages) ==
    IF messages = << >> THEN ReplyPrimingTokens
    ELSE MessageFormattingTokens
         + FieldTokens(Head(messages), DOMAIN Head(messages))
         + count_messages_tokens(Tail(messages))

----------------------------------------------------------------------------
(* ContextManager *)

CompactionStrategy(f, l, s) ==
    [keep_first_n |-> f, keep_last_n |-> l, summarize_middle |-> s,
     summary_max_tokens |-> 500]

ContextManager(max_tokens, strategy) ==
    [max_tokens |-> max_tokens,
     messages |-> << >>,
     compaction_strategy |-> strategy,
     compaction_count |-> 0,
     metadata |-> [total_messages |-> 0, compactions |-> 0, tokens_saved |-> 0]]

add_message(cm, role, content, name, tool_calls, tool_call_id) ==
    LET m0 == [role |-> role, content |-> content]
        m1 == IF name # "" THEN m0 @@ [name |-> name] ELSE m0
        m2 == IF tool_calls # << >> THEN m1 @@ [tool_calls |-> tool_calls] ELSE m1
        message == IF tool_call_id # "" THEN m2 @@ [tool_call_id |-> tool_call_id]
                   ELSE m2
    IN  [cm EXCEPT !.messages = Append(@, message),
                   !.metadata = IF "total_messages" \in DOMAIN @
                                THEN [@ EXCEPT !.total_messages = @ + 1]
                                ELSE @]

\* self.metadata["total_messages"] += 1 raises KeyError, after the append
add_message_raises(cm) == "total_messages" \notin DOMAIN cm.metadata

\* list.copy(): a new list holding the same dicts
get_messages(cm) == cm.messages

\* a clear() that also forgets the lifetime counter
clear_resetting_seen(cm) ==
    [cm EXCEPT !.messages = << >>, !.metadata.total_messages = 0]

\* a clear() that also forgets the compactions performed
clear_resetting_compactions(cm) ==
    [cm EXCEPT !.messages = << >>, !.compaction_count = 0]

clear(cm) == [cm EXCEPT !.messages = << >>]

\* dict.get(key, default)
PyGet(d, key, default) == IF key \in DOMAIN d THEN d[key] ELSE default

\* sep.join(parts)
RECURSIVE Join(_, _)
Join(parts, sep) ==
    IF parts = << >> THEN ""
    ELSE IF Len(parts) = 1 THEN parts[1]
    ELSE parts[1] \o sep \o Join(Tail(parts), sep)

TruncateAt == 200

Truncate(content) ==
    IF Len(content) > TruncateAt THEN SubSeq(content, 1, TruncateAt) \o "..."
    ELSE content

ToolNames(tool_calls) ==
    [i \in 1..Len(tool_calls) |->
        PyGet(PyGet(tool_calls[i], "function", << >>), "name", "unknown")]

\* the summary_parts one message contributes: one line, or none
SummaryPart(msg) ==
    LET role == PyGet(msg, "role", "unknown")
        content == Truncate(PyGet(msg, "content", ""))
    IN  IF role = USER THEN << "User asked: " \o content >>
        ELSE IF role = ASSISTANT THEN
            IF "tool_calls" \in DOMAIN msg
            THEN << "Assistant used tools: " \o Join(ToolNames(msg.tool_calls), ", ") >>
            ELSE << "Assistant: " \o content >>
        ELSE IF role = TOOL
            THEN << "Tool " \o PyGet(msg, "name", "unknown") \o " executed" >>
        ELSE << >>

RECURSIVE SummaryParts(_)
SummaryParts(messages) ==
    IF messages = << >> THEN << >>
    ELSE SummaryPart(Head(messages)) \o SummaryParts(Tail(messages))

_summarize_messages(messages) == Join(SummaryParts(messages), "\n")

first_messages(messages, strategy) == PySliceTo(messages, strategy.keep_first_n)

last_messages(messages, strategy) == PySliceFrom(messages, 0 - strategy.keep_last_n)

middle_messages(messages, strategy) ==
    PySlice(messages, strategy.keep_first_n, 0 - strategy.keep_last_n)

\* a guard that compacts a window of exactly keep_first_n + keep_last_n
CanCompact_AtThreshold(cm) ==
    Len(cm.messages) >=
        cm.compaction_strategy.keep_first_n + cm.compaction_strategy.keep_last_n

\* the guard of compact(): enough messages to compact
CanCompact(cm) ==
    Len(cm.messages) >
        cm.compaction_strategy.keep_first_n + cm.compaction_strategy.keep_last_n

\* whether compact() builds a summary message
Summarizes(cm) ==
    /\ cm.compaction_strategy.summarize_middle
    /\ middle_messages(cm.messages, cm.compaction_strategy) # << >>

summary_message(cm) ==
    LET middle == middle_messages(cm.messages, cm.compaction_strategy)
    IN  [role |-> SYSTEM,
         content |-> "[Context Summary - " \o ToString(Len(middle))
                     \o " messages compressed]\n" \o _summarize_messages(middle)]

\* the list compact() rebuilds, over any list laid out like self.messages
\* (the dicts themselves, or their object identities)
Rebuild(list, strategy, withSummary, summary) ==
    IF withSummary
    THEN first_messages(list, strategy) \o << summary >> \o last_messages(list, strategy)
    ELSE first_messages(list, strategy) \o last_messages(list, strategy)

\* a compaction that adds the summary and drops nothing
CompactedMessages_keeping_all(cm) ==
    IF Summarizes(cm) THEN cm.messages \o << summary_message(cm) >> ELSE cm.messages

CompactedMessages(cm) ==
    Rebuild(cm.messages, cm.compaction_strategy, Summarizes(cm), summary_message(cm))

\* a compact() that reports no saving when the rebuilt window costs more
compact_saved_clamped(cm) ==
    IF ~CanCompact(cm) THEN 0
    ELSE LET saved == count_messages_tokens(cm.messages)
                      - count_messages_tokens(CompactedMessages(cm))
         IN  IF saved < 0 THEN 0 ELSE saved

\* the value compact() returns
compact_saved(cm) ==
    IF ~CanCompact(cm) THEN 0
    ELSE count_messages_tokens(cm.messages)
         - count_messages_tokens(CompactedMessages(cm))

\* a compact() that does not count the compaction
compact_not_counting(cm) ==
    IF ~CanCompact(cm) THEN cm
    ELSE [cm EXCEPT !.messages = CompactedMessages(cm),
                    !.metadata = [@ EXCEPT !.tokens_saved = @ + compact_saved(cm)]]

\* the ContextManager after compact()
compact(cm) ==
    IF ~CanCompact(cm) THEN cm
    ELSE [cm EXCEPT !.messages = CompactedMessages(cm),
                    !.compaction_count = @ + 1,
                    !.metadata = IF {"compactions", "tokens_saved"} \subseteq DOMAIN @
                                 THEN [@ EXCEPT !.compactions = @ + 1,
                                                !.tokens_saved = @ + compact_saved(cm)]
                                 ELSE @]

\* self.metadata["compactions"] += 1 raises KeyError, after the window was
\* rebuilt and compaction_count incremented
compact_raises(cm) ==
    CanCompact(cm) /\ ~({"compactions", "tokens_saved"} \subseteq DOMAIN cm.metadata)

get_state(cm) ==
    [message_count |-> Len(cm.messages),
     total_messages_seen |-> cm.metadata.total_messages,
     compaction_count |-> cm.compaction_count,
     tokens_saved |-> cm.metadata.tokens_saved,
     max_tokens |-> cm.max_tokens,
     compaction_strategy |->
        [keep_first_n |-> cm.compaction_strategy.keep_first_n,
         keep_last_n |-> cm.compaction_strategy.keep_last_n,
         summarize_middle |-> cm.compaction_strategy.summarize_middle]]

\* the document export_context() writes (json.dump of data)
export_context(cm) ==
    [messages |-> cm.messages, metadata |-> cm.metadata, state |-> get_state(cm)]

\* an import that appends the document's messages to the live ones
import_context_merging(cm, data) ==
    [cm EXCEPT !.messages = @ \o PyGet(data, "messages", << >>),
               !.metadata = PyGet(data, "metadata", << >>),
               !.compaction_count =
                    IF "state" \in DOMAIN data
                    THEN PyGet(data.state, "compaction_count", 0)
                    ELSE @]

\* an import that keeps the importing window's own compaction_count
import_context_keeping_count(cm, data) ==
    [cm EXCEPT !.messages = PyGet(data, "messages", << >>),
               !.metadata = PyGet(data, "metadata", << >>)]

\* the ContextManager after import_context() of the document data
import_context(cm, data) ==
    [cm EXCEPT !.messages = PyGet(data, "messages", << >>),
               !.metadata = PyGet(data, "metadata", << >>),
               !.compaction_count =
                    IF "state" \in DOMAIN data
                    THEN PyGet(data.state, "compaction_count", 0)
                    ELSE @]

----------------------------------------------------------------------------
(* TokenTracker: usage records *)

\* a TokenTracker that ignores the max_tokens it is given
TokenTracker_default_budget(model_name, max_tokens) ==
    [model_name |-> model_name, max_tokens |-> 4096, usage_history |-> << >>]

TokenTracker(model_name, max_tokens) ==
    [model_name |-> model_name, max_tokens |-> max_tokens, usage_history |-> << >>]

TokenUsage(prompt_tokens, completion_tokens, context) ==
    [prompt_tokens |-> prompt_tokens,
     completion_tokens |-> completion_tokens,
     total_tokens |-> prompt_tokens + completion_tokens,
     context |-> context]

\* a record_usage that keeps only the newest record
record_usage_replacing(tt, prompt_tokens, completion_tokens, context) ==
    [tt EXCEPT !.usage_history =
        << TokenUsage(prompt_tokens, completion_tokens, context) >>]

record_usage(tt, prompt_tokens, completion_tokens, context) ==
    [tt EXCEPT !.usage_history =
        Append(@, TokenUsage(prompt_tokens, completion_tokens, context))]

RECURSIVE SumPrompt(_)
SumPrompt(history) ==
    IF history = << >> THEN 0
    ELSE Head(history).prompt_tokens + SumPrompt(Tail(history))

RECURSIVE SumCompletion(_)
SumCompletion(history) ==
    IF history = << >> THEN 0
    ELSE Head(history).completion_tokens + SumCompletion(Tail(history))

\* a get_total_usage that never reports less than nothing remaining
get_total_usage_clamped(tt) ==
    LET total_prompt == SumPrompt(tt.usage_history)
        total_completion == SumCompletion(tt.usage_history)
        remaining == tt.max_tokens - (total_prompt + total_completion)
    IN  [total_prompt_tokens |-> total_prompt,
         total_completion_tokens |-> total_completion,
         total_tokens |-> total_prompt + total_completion,
         interaction_count |-> Len(tt.usage_history),
         max_tokens |-> tt.max_tokens,
         tokens_remaining |-> IF remaining < 0 THEN 0 ELSE remaining]

get_total_usage(tt) ==
    LET total_prompt == SumPrompt(tt.usage_history)
        total_completion == SumCompletion(tt.usage_history)
    IN  [total_prompt_tokens |-> total_prompt,
         total_completion_tokens |-> total_completion,
         total_tokens |-> total_prompt + total_completion,
         interaction_count |-> Len(tt.usage_history),
         max_tokens |-> tt.max_tokens,
         tokens_remaining |-> tt.max_tokens - (total_prompt + total_completion)]

get_current_context_tokens(messages) == count_messages_tokens(messages)

\* an is_near_limit that answers whether the window is still below the limit
is_near_limit_below(tt, messages, num, den) ==
    den * get_current_context_tokens(messages) <= tt.max_tokens * num

\* an is_near_limit for which reaching the threshold exactly is not near
is_near_limit_strict(tt, messages, num, den) ==
    den * get_current_context_tokens(messages) > tt.max_tokens * num

\* current_tokens >= max_tokens * threshold, the threshold given as num / den
is_near_limit(tt, messages, num, den) ==
    den * get_current_context_tokens(messages) >= tt.max_tokens * num

tracker_reset(tt) == [tt EXCEPT !.usage_history = << >>]

----------------------------------------------------------------------------
(* ReactAgent and Subagent: the steps of their methods, on the agent's own  *)
(* state v: its ContextManager v.cm, its TokenTracker v.tt, its fields, the  *)
(* frame of the run() in flight and the outcome of the last call.            *)

Idle == [pc |-> "idle"]

NoGraph == [built |-> FALSE]

NoCall == [op |-> "none"]

BuiltinTools ==
    << "read_file", "write_file", "list_directory", "glob_search", "grep_search",
       "run_bash_command" >>

DefaultModel == "gpt-3.5-turbo"

\* ReactAgent.__init__, given the objects it creates
ReactAgent_init(system_prompt, cmRef, ttRef) ==
    [context_manager |-> cmRef,
     token_tracker |-> ttRef,
     tools |-> BuiltinTools,
     mcp_tools |-> << >>,
     mcp_servers |-> << >>,
     subagents |-> << >>,
     system_prompt |-> system_prompt,
     agent_graph |-> NoGraph]

\* a ReactAgent whose compaction policy keeps no first message
ReactAgent_context_keeping_none(system_prompt, max_tokens) ==
    add_message(ContextManager(max_tokens, CompactionStrategy(0, 10, TRUE)),
                SYSTEM, system_prompt, "", << >>, "")

\* the ContextManager ReactAgent.__init__ creates and seeds
ReactAgent_context(system_prompt, max_tokens) ==
    add_message(ContextManager(max_tokens, CompactionStrategy(2, 10, TRUE)),
                SYSTEM, system_prompt, "", << >>, "")

_get_agent_graph(v) ==
    IF v.graph = NoGraph
    THEN [built |-> TRUE, tools |-> v.tools \o v.mcp_tools,
          state_modifier |-> v.system_prompt]
    ELSE v.graph

\* run(): from the call to the executor's invocation
ReactAgent_run_begin(v, task) ==
    LET cm1 == add_message(v.cm, USER, task, "", << >>, "")
        messages == get_messages(cm1)
        cm2 == IF is_near_limit(v.tt, messages, 7, 10) THEN compact(cm1) ELSE cm1
    IN  [v EXCEPT !.cm = cm2,
                  !.frame = [pc |-> "invoke", task |-> task, messages |-> messages,
                             n0 |-> Len(v.cm.messages),
                             compact_called |->
                                is_near_limit(v.tt, messages, 7, 10)]]

\* a run() that files the response ahead of the task it answers
ReactAgent_run_ok_answer_first(v, response) ==
    LET n == Len(v.cm.messages)
        answered == add_message(v.cm, ASSISTANT, response, "", << >>, "")
    IN  [v EXCEPT !.graph = _get_agent_graph(v),
                  !.cm = [answered EXCEPT !.messages =
                            SubSeq(v.cm.messages, 1, n - 1)
                            \o << answered.messages[n + 1], v.cm.messages[n] >>],
                  !.tt = record_usage(@, count_messages_tokens(v.frame.messages),
                                      count_tokens(response), v.frame.task),
                  !.frame = Idle,
                  !.ret = [op |-> "run", executor |-> "ok", n0 |-> v.frame.n0,
                           kind |-> "return", type |-> "str", value |-> response]]

\* run(): the executor returned response
ReactAgent_run_ok(v, response) ==
    [v EXCEPT !.graph = _get_agent_graph(v),
              !.cm = add_message(@, ASSISTANT, response, "", << >>, ""),
              !.tt = record_usage(@, count_messages_tokens(v.frame.messages),
                                  count_tokens(response), v.frame.task),
              !.frame = Idle,
              !.ret = [op |-> "run", executor |-> "ok", n0 |-> v.frame.n0,
                       kind |-> "return", type |-> "str", value |-> response]]

\* a run() whose except clause lets the failure through
ReactAgent_run_except_reraising(v, e) ==
    [v EXCEPT !.graph = _get_agent_graph(v),
              !.frame = Idle,
              !.ret = [op |-> "run", executor |-> "error", n0 |-> v.frame.n0,
                       kind |-> "raise", type |-> "Exception", value |-> e]]

\* run(): the executor raised Exception(e)
ReactAgent_run_except(v, e) ==
    LET error_msg == "Error executing task: " \o e
    IN  [v EXCEPT !.graph = _get_agent_graph(v),
                  !.cm = add_message(@, ASSISTANT, error_msg, "", << >>, ""),
                  !.frame = Idle,
                  !.ret = [op |-> "run", executor |-> "error", n0 |-> v.frame.n0,
                           kind |-> "return", type |-> "str", value |-> error_msg]]

\* a run() that leaves a partial Assistant message when it is interrupted
ReactAgent_run_interrupted_appending(v) ==
    [v EXCEPT !.graph = _get_agent_graph(v),
              !.cm = add_message(@, ASSISTANT, "", "", << >>, ""),
              !.frame = Idle,
              !.ret = [op |-> "run", executor |-> "cancelled", n0 |-> v.frame.n0,
                       kind |-> "raise", type |-> "BaseException"]]

\* run(): agent.invoke was interrupted by a BaseException that is not an
\* Exception (KeyboardInterrupt, asyncio.CancelledError): `except Exception`
\* does not catch it and it leaves run()
ReactAgent_run_interrupted(v) ==
    [v EXCEPT !.graph = _get_agent_graph(v),
              !.frame = Idle,
              !.ret = [op |-> "run", executor |-> "cancelled", n0 |-> v.frame.n0,
                       kind |-> "raise", type |-> "BaseException"]]

ReactAgent_reset(v) ==
    [v EXCEPT !.cm = add_message(clear(@), SYSTEM, v.system_prompt, "", << >>, ""),
              !.tt = tracker_reset(@),
              !.ret = [op |-> "reset", kind |-> "return", type |-> "None"]]

\* an add_tool that leaves the cached graph in place
add_tool_keeping_graph(v, tool) ==
    [v EXCEPT !.tools = Append(@, tool),
              !.ret = [op |-> "add_tool", kind |-> "return", type |-> "None",
                       tool |-> tool]]

add_tool(v, tool) ==
    [v EXCEPT !.tools = Append(@, tool),
              !.graph = NoGraph,
              !.ret = [op |-> "add_tool", kind |-> "return", type |-> "None",
                       tool |-> tool]]

\* MCPClient.add_server: self.servers[name] = config, name given
add_server(servers, url, name) ==
    [n \in DOMAIN servers \cup {name} |-> IF n = name THEN url ELSE servers[n]]

\* add_mcp_server, when add_server answered success
add_mcp_server(v, success) ==
    [v EXCEPT !.graph = IF success THEN NoGraph ELSE @,
              !.ret = [op |-> "add_mcp_server", kind |-> "return", type |-> "bool",
                       value |-> success]]

\* MCPClient.create_custom_tool: self.tools[name] = tool; the dict keeps the
\* position of a name it already holds
create_custom_tool(mcp_tools, name) ==
    IF \E k \in 1..Len(mcp_tools) : mcp_tools[k] = name
    THEN mcp_tools
    ELSE Append(mcp_tools, name)

SubagentMaxIterations == 10

\* a Subagent.__init__ that keeps using its parent's ContextManager
Subagent_init_sharing_context(name, system_prompt, tools, parent_agent, cmRef, ttRef) ==
    [name |-> name,
     system_prompt |-> system_prompt,
     tools |-> tools,
     max_iterations |-> SubagentMaxIterations,
     context_manager |-> parent_agent.context_manager,
     token_tracker |-> ttRef,
     execution_count |-> 0,
     total_tokens_used |-> 0]

\* a Subagent.__init__ that keeps using its parent's TokenTracker
Subagent_init_sharing_tracker(name, system_prompt, tools, parent_agent, cmRef, ttRef) ==
    [name |-> name,
     system_prompt |-> system_prompt,
     tools |-> tools,
     max_iterations |-> SubagentMaxIterations,
     context_manager |-> cmRef,
     token_tracker |-> parent_agent.token_tracker,
     execution_count |-> 0,
     total_tokens_used |-> 0]

\* Subagent.__init__, given the objects it creates
Subagent_init(name, system_prompt, tools, parent_agent, cmRef, ttRef) ==
    [name |-> name,
     system_prompt |-> system_prompt,
     tools |-> tools,
     max_iterations |-> SubagentMaxIterations,
     context_manager |-> cmRef,
     token_tracker |-> ttRef,
     execution_count |-> 0,
     total_tokens_used |-> 0]

\* the ContextManager Subagent.__init__ creates
Subagent_context(max_tokens) ==
    ContextManager(max_tokens, CompactionStrategy(1, 5, TRUE))

\* run(): up to the call of _react_loop
\* a run() that does not count the execution
Subagent_run_begin_uncounted(v, task) ==
    [v EXCEPT !.cm = add_message(@, USER, task, "", << >>, ""),
              !.frame = [pc |-> "loop", task |-> task, n0 |-> Len(v.cm.messages)]]

\* run(): from the call to the call of _react_loop
Subagent_run_begin(v, task) ==
    [v EXCEPT !.execution_count = @ + 1,
              !.cm = add_message(@, USER, task, "", << >>, ""),
              !.frame = [pc |-> "loop", task |-> task, n0 |-> Len(v.cm.messages)]]

\* the while loop of _react_loop, from the given iteration on
RECURSIVE ReactLoop(_, _, _, _)
ReactLoop(v, iteration, has_answer, final_answer) ==
    IF iteration < v.max_iterations /\ ~has_answer
    THEN LET it == iteration + 1
             near == is_near_limit(v.tt, get_messages(v.cm), 7, 10)
             cm1 == IF near THEN compact(v.cm) ELSE v.cm
             messages == get_messages(cm1)
             response_text == "Iteration " \o ToString(it) \o ": Processing task '"
                              \o v.frame.task \o "'"
             tt1 == record_usage(v.tt, count_messages_tokens(messages),
                                 count_tokens(response_text),
                                 "Subagent " \o v.name \o " iteration " \o ToString(it))
             cm2 == add_message(cm1, ASSISTANT, response_text, "", << >>, "")
         IN  ReactLoop([v EXCEPT !.cm = cm2, !.tt = tt1], it, TRUE, response_text)
    ELSE [v |-> v,
          iterations |-> iteration,
          result |-> IF has_answer THEN final_answer
                     ELSE "Max iterations reached without final answer"]

\* run(): the call of _react_loop
Subagent_react_loop(v) ==
    LET r == ReactLoop(v, 0, FALSE, "")
    IN  [r.v EXCEPT !.frame = [pc |-> "finish", task |-> v.frame.task,
                               n0 |-> v.frame.n0, result |-> r.result,
                               iterations |-> r.iterations,
                               compact_called |->
                                    /\ 0 < v.max_iterations
                                    /\ is_near_limit(v.tt, get_messages(v.cm), 7, 10)]]

\* [m for m in messages if m["role"] == role]
RECURSIVE WithRole(_, _)
WithRole(messages, role) ==
    IF messages = << >> THEN << >>
    ELSE IF Head(messages).role = role
         THEN << Head(messages) >> \o WithRole(Tail(messages), role)
         ELSE WithRole(Tail(messages), role)

_generate_summary(v) ==
    LET messages == get_messages(v.cm)
        token_usage == get_total_usage(v.tt)
        user_messages == WithRole(messages, USER)
        assistant_messages == WithRole(messages, ASSISTANT)
        summary_parts ==
            << "Subagent: " \o v.name,
               "Task: " \o (IF user_messages # << >>
                             THEN user_messages[Len(user_messages)].content
                             ELSE "N/A"),
               "Messages exchanged: " \o ToString(Len(messages)),
               "Tokens used: " \o ToString(token_usage.total_tokens),
               "Context compactions: " \o ToString(v.cm.compaction_count) >>
        last_part ==
            IF assistant_messages # << >>
            THEN << "Last response: "
                    \o Truncate(assistant_messages[Len(assistant_messages)].content) >>
            ELSE << >>
    IN  Join(summary_parts \o last_part, "\n")

\* run(): from the return of _react_loop to the return of run()
Subagent_run_finish(v) ==
    LET token_usage == get_total_usage(v.tt)
    IN  [v EXCEPT !.total_tokens_used = @ + token_usage.total_tokens,
                  !.frame = Idle,
                  !.ret = [op |-> "run", executor |-> "none", n0 |-> v.frame.n0,
                           kind |-> "return", type |-> "SubagentResult",
                           value |-> [success |-> TRUE,
                                      result |-> v.frame.result,
                                      summary |-> _generate_summary(v),
                                      token_usage |-> token_usage,
                                      metadata |->
                                        [iterations |-> v.execution_count,
                                         context_compactions |->
                                            v.cm.compaction_count]]]]

\* run(): an Exception e left _react_loop; the except branch reports it
Subagent_run_except(v, e) ==
    [v EXCEPT !.frame = Idle,
              !.ret = [op |-> "run", executor |-> "none", n0 |-> v.frame.n0,
                       kind |-> "return", type |-> "SubagentResult",
                       value |-> [success |-> FALSE,
                                  result |-> "Error: " \o e,
                                  summary |-> "Subagent " \o v.name
                                              \o " encountered an error: " \o e,
                                  token_usage |-> get_total_usage(v.tt),
                                  metadata |-> [error |-> e]]]]

\* a reset() that leaves the execution metadata alone
Subagent_reset_keeping_count(v) ==
    [v EXCEPT !.cm = add_message(clear(@), SYSTEM, v.system_prompt, "", << >>, ""),
              !.tt = tracker_reset(@),
              !.ret = [op |-> "reset", kind |-> "return", type |-> "None"]]

Subagent_reset(v) ==
    [v EXCEPT !.cm = add_message(clear(@), SYSTEM, v.system_prompt, "", << >>, ""),
              !.tt = tracker_reset(@),
              !.execution_count = 0,
              !.total_tokens_used = 0,
              !.ret = [op |-> "reset", kind |-> "return", type |-> "None"]]

\* self.subagents[name] = subagent
Register(subagents, name, subagent) ==
    [n \in DOMAIN subagents \cup {name} |->
        IF n = name THEN subagent ELSE subagents[n]]

\* a get_subagent that falls back to the first subagent created
get_subagent_defaulting(subagents, name) == PyGet(subagents, name, 1)

\* self.subagents.get(name); None is 0, no subagent
get_subagent(subagents, name) == PyGet(subagents, name, 0)

(* The agents' part of a state: the objects and the references to them *)

ParentId == 0

AgentIds == 0..Len(subs)

ParentView ==
    [cm |-> cms[agent.context_manager],
     tt |-> tts[agent.token_tracker],
     graph |-> agent.agent_graph,
     tools |-> agent.tools,
     mcp_tools |-> agent.mcp_tools,
     system_prompt |-> agent.system_prompt,
     frame |-> frame[ParentId],
     ret |-> ret[ParentId]]

SubView(i) ==
    [cm |-> cms[subs[i].context_manager],
     tt |-> tts[subs[i].token_tracker],
     name |-> subs[i].name,
     system_prompt |-> subs[i].system_prompt,
     max_iterations |-> subs[i].max_iterations,
     execution_count |-> subs[i].execution_count,
     total_tokens_used |-> subs[i].total_tokens_used,
     frame |-> frame[i],
     ret |-> ret[i]]

View(id) == IF id = ParentId THEN ParentView ELSE SubView(id)

\* the state after the ReactAgent's own step took its state to v
StoreParent(v) ==
    /\ cms' = [cms EXCEPT ![agent.context_manager] = v.cm]
    /\ tts' = [tts EXCEPT ![agent.token_tracker] = v.tt]
    /\ agent' = [agent EXCEPT !.agent_graph = v.graph]
    /\ frame' = [frame EXCEPT ![ParentId] = v.frame]
    /\ ret' = [ret EXCEPT ![ParentId] = v.ret]
    /\ UNCHANGED subs

\* the state after subs[i]'s own step took its state to v
StoreSub(i, v) ==
    /\ cms' = [cms EXCEPT ![subs[i].context_manager] = v.cm]
    /\ tts' = [tts EXCEPT ![subs[i].token_tracker] = v.tt]
    /\ subs' = [subs EXCEPT ![i].execution_count = v.execution_count,
                            ![i].total_tokens_used = v.total_tokens_used]
    /\ frame' = [frame EXCEPT ![i] = v.frame]
    /\ ret' = [ret EXCEPT ![i] = v.ret]
    /\ UNCHANGED agent

\* a ReactAgent(system_prompt=..., max_tokens=...) and nothing else
AgentInit(system_prompt, max_tokens) ==
    /\ cms = << ReactAgent_context(system_prompt, max_tokens) >>
    /\ tts = << TokenTracker(DefaultModel, max_tokens) >>
    /\ agent = ReactAgent_init(system_prompt, 1, 1)
    /\ subs = << >>
    /\ frame = [id \in {ParentId} |-> Idle]
    /\ ret = [id \in {ParentId} |-> NoCall]
    /\ solo = [id \in {ParentId} |->
                [cm |-> ReactAgent_context(system_prompt, max_tokens),
                 tt |-> TokenTracker(DefaultModel, max_tokens),
                 graph |-> NoGraph,
                 tools |-> BuiltinTools,
                 mcp_tools |-> << >>,
                 system_prompt |-> system_prompt,
                 frame |-> Idle,
                 ret |-> NoCall]]

----------------------------------------------------------------------------
(* The window scenarios: callers driving ContextManager objects directly *)

Windows == {"w", "t"}

NoFile == [absent |-> TRUE]

\* the arguments add_message is called with
AddInputs ==
    { [role |-> USER, content |-> "q", name |-> "", tool_calls |-> << >>,
       tool_call_id |-> ""],
      [role |-> ASSISTANT, content |-> "a", name |-> "", tool_calls |-> << >>,
       tool_call_id |-> ""],
      [role |-> TOOL, content |-> "ok", name |-> "grep", tool_calls |-> << >>,
       tool_call_id |-> "c1"] }

Strategies ==
    { CompactionStrategy(f, l, s) : f \in 0..MaxKeep, l \in 0..MaxKeep, s \in BOOLEAN }

DefaultMaxTokens == 4096

Init ==
    /\ \E st \in Strategies :
            win = [w \in Windows |-> ContextManager(DefaultMaxTokens, st)]
    /\ last = [op |-> "init"]
    /\ file = NoFile
    /\ exported = NoFile
    /\ snap = << >>
    /\ winAddr = [w \in Windows |-> << >>]
    /\ snapAddr = << >>
    /\ nextAddr = 1
    /\ AgentInit("main", DefaultMaxTokens)

\* a caller's add_message call on window w, one of the inputs
AddMessageCall(w, inputs, maxLive, maxSeen) ==
    /\ Len(win[w].messages) < maxLive
    /\ win[w].metadata.total_messages < maxSeen
    /\ \E a \in inputs :
            win' = [win EXCEPT ![w] =
                      add_message(@, a.role, a.content, a.name, a.tool_calls,
                                  a.tool_call_id)]
    /\ last' = [op |-> "add_message", w |-> w]

ClearCall(w) ==
    /\ win' = [win EXCEPT ![w] = clear(@)]
    /\ last' = [op |-> "clear", w |-> w]

CompactCall(w) ==
    /\ win[w].compaction_count < MaxCompactions
    /\ win' = [win EXCEPT ![w] = compact(@)]
    /\ last' = [op |-> "compact", w |-> w, ret |-> compact_saved(win[w]),
                n |-> Len(win[w].messages)]

(* One window driven by add_message, clear and compact *)

AddMessage(w) ==
    /\ AddMessageCall(w, AddInputs, MaxMsgs, MaxSeen)
    /\ UNCHANGED <<agentVars, file, exported, snap, winAddr, snapAddr, nextAddr>>

Clear(w) ==
    /\ ClearCall(w)
    /\ UNCHANGED <<agentVars, file, exported, snap, winAddr, snapAddr, nextAddr>>

Compact(w) ==
    /\ CompactCall(w)
    /\ UNCHANGED <<agentVars, file, exported, snap, winAddr, snapAddr, nextAddr>>

Next == AddMessage("w") \/ Clear("w") \/ Compact("w")

Spec == Init /\ [][Next]_vars

(* A caller holding the list get_messages() returned.  The dicts of a      *)
(* window are objects: winAddr and snapAddr give the identity of the dict   *)
(* in each list slot, and a write to a dict shows in every slot holding it. *)

\* dict[key] = value on the object a, seen through one list
SetField(list, addrs, a, key, value) ==
    [i \in 1..Len(list) |->
        IF addrs[i] = a THEN [list[i] EXCEPT ![key] = value] ELSE list[i]]

SnapInputs == { a \in AddInputs : a.role \in {USER, ASSISTANT} }

SnapAddMessage(w) ==
    /\ nextAddr <= MaxAddr
    /\ AddMessageCall(w, SnapInputs, MaxSnapMsgs, MaxSnapMsgs)
    /\ winAddr' = [winAddr EXCEPT ![w] = Append(@, nextAddr)]
    /\ nextAddr' = nextAddr + 1
    /\ UNCHANGED <<agentVars, file, exported, snap, snapAddr>>

SnapClear(w) ==
    /\ ClearCall(w)
    /\ winAddr' = [winAddr EXCEPT ![w] = << >>]
    /\ UNCHANGED <<agentVars, file, exported, snap, snapAddr, nextAddr>>

SnapCompact(w) ==
    /\ nextAddr <= MaxAddr
    /\ CompactCall(w)
    /\ IF CanCompact(win[w])
       THEN /\ winAddr' = [winAddr EXCEPT ![w] =
                    Rebuild(@, win[w].compaction_strategy, Summarizes(win[w]),
                            nextAddr)]
            /\ nextAddr' = IF Summarizes(win[w]) THEN nextAddr + 1 ELSE nextAddr
       ELSE UNCHANGED <<winAddr, nextAddr>>
    /\ UNCHANGED <<agentVars, file, exported, snap, snapAddr>>

GetMessages(w) ==
    /\ snap' = get_messages(win[w])
    /\ snapAddr' = winAddr[w]
    /\ last' = [op |-> "get_messages", w |-> w]
    /\ UNCHANGED <<agentVars, win, file, exported, winAddr, nextAddr>>

\* returned.append({...})
CallerAppends ==
    /\ Len(snap) < MaxSnapLen
    /\ nextAddr <= MaxAddr
    /\ snap' = Append(snap, [role |-> USER, content |-> "extra"])
    /\ snapAddr' = Append(snapAddr, nextAddr)
    /\ nextAddr' = nextAddr + 1
    /\ last' = [op |-> "caller_append"]
    /\ UNCHANGED <<agentVars, win, file, exported, winAddr>>

\* returned.pop()
CallerRemoves ==
    /\ snap # << >>
    /\ snap' = SubSeq(snap, 1, Len(snap) - 1)
    /\ snapAddr' = SubSeq(snapAddr, 1, Len(snapAddr) - 1)
    /\ last' = [op |-> "caller_remove"]
    /\ UNCHANGED <<agentVars, win, file, exported, winAddr, nextAddr>>

\* returned[j]["content"] = "changed"
CallerSetsField ==
    \E j \in 1..Len(snap) :
        /\ snap[j].content # "changed"
        /\ snap' = SetField(snap, snapAddr, snapAddr[j], "content", "changed")
        /\ win' = [w \in Windows |->
                     [win[w] EXCEPT !.messages =
                        SetField(@, winAddr[w], snapAddr[j], "content", "changed")]]
        /\ last' = [op |-> "caller_set_field", j |-> j]
        /\ UNCHANGED <<agentVars, file, exported, snapAddr, winAddr, nextAddr>>

SnapNext ==
    \/ SnapAddMessage("w")
    \/ SnapClear("w")
    \/ SnapCompact("w")
    \/ GetMessages("w")
    \/ CallerAppends
    \/ CallerRemoves
    \/ CallerSetsField

SnapSpec == Init /\ [][SnapNext]_vars

(* Two windows and a file: export_context on one, import_context on either *)

\* json.dump then json.load: the documents hold only dicts with str keys,
\* lists, str and int, which JSON reproduces exactly, as new objects
json_dump(data) == data
json_load(document) == document

FileInputs == { a \in AddInputs : a.role \in {USER, TOOL} }

FileAddMessage(w) ==
    /\ AddMessageCall(w, FileInputs, MaxFileMsgs, MaxFileMsgs)
    /\ UNCHANGED <<agentVars, file, exported, snap, winAddr, snapAddr, nextAddr>>

FileCompact(w) ==
    /\ CanCompact(win[w])
    /\ CompactCall(w)
    /\ UNCHANGED <<agentVars, file, exported, snap, winAddr, snapAddr, nextAddr>>

ExportContext(w) ==
    /\ file' = json_dump(export_context(win[w]))
    /\ exported' = win[w]
    /\ last' = [op |-> "export_context", w |-> w]
    /\ UNCHANGED <<agentVars, win, snap, winAddr, snapAddr, nextAddr>>

ImportContext(w) ==
    /\ file # NoFile
    /\ win' = [win EXCEPT ![w] = import_context(@, json_load(file))]
    /\ last' = [op |-> "import_context", w |-> w, pre |-> win[w]]
    /\ UNCHANGED <<agentVars, file, exported, snap, winAddr, snapAddr, nextAddr>>

FileNext ==
    \/ \E w \in Windows : FileAddMessage(w)
    \/ \E w \in Windows : FileCompact(w)
    \/ ExportContext("w")
    \/ ImportContext("t")

FileSpec == Init /\ [][FileNext]_vars

----------------------------------------------------------------------------
(* A ReactAgent and the Subagents created under it.  Calls on one agent are *)
(* serialized (one run() in flight per agent); the steps of calls on        *)
(* different agents interleave freely.                                      *)

Tasks == { "t1" }
Responses == { "r1" }
ExecutorErrors == { "timeout" }
\* the arguments create_subagent is called with
CreateInputs ==
    { [name |-> "a", system_prompt |-> "sub", max_tokens |-> 40],
      [name |-> "b", system_prompt |-> "sub", max_tokens |-> DefaultMaxTokens] }

WindowsUnused ==
    /\ win = [w \in Windows |->
                ContextManager(DefaultMaxTokens, CompactionStrategy(2, 10, TRUE))]
    /\ last = [op |-> "init"]
    /\ file = NoFile
    /\ exported = NoFile
    /\ snap = << >>
    /\ winAddr = [w \in Windows |-> << >>]
    /\ snapAddr = << >>
    /\ nextAddr = 1

HierInit ==
    /\ WindowsUnused
    /\ AgentInit("main", DefaultMaxTokens)

\* f with one more agent id, mapped to x
WithNew(f, id, x) == [k \in DOMAIN f \cup {id} |-> IF k = id THEN x ELSE f[k]]

Seen(id) == View(id).cm.metadata.total_messages

\* messages seen by the ReactAgent and its first n subagents together
RECURSIVE SeenUpTo(_)
SeenUpTo(n) == IF n = 0 THEN Seen(ParentId) ELSE Seen(n) + SeenUpTo(n - 1)

TotalSeen == SeenUpTo(Len(subs))

ParentRunBegin ==
    /\ frame[ParentId].pc = "idle"
    /\ TotalSeen + 2 <= MaxAgentSeen
    /\ \E task \in Tasks :
        /\ StoreParent(ReactAgent_run_begin(ParentView, task))
        /\ solo' = [solo EXCEPT ![ParentId] = ReactAgent_run_begin(@, task)]
    /\ UNCHANGED windowVars

ParentExecutorReturns ==
    /\ frame[ParentId].pc = "invoke"
    /\ \E response \in Responses :
        /\ StoreParent(ReactAgent_run_ok(ParentView, response))
        /\ solo' = [solo EXCEPT ![ParentId] = ReactAgent_run_ok(@, response)]
    /\ UNCHANGED windowVars

ParentExecutorRaises ==
    /\ frame[ParentId].pc = "invoke"
    /\ \E e \in ExecutorErrors :
        /\ StoreParent(ReactAgent_run_except(ParentView, e))
        /\ solo' = [solo EXCEPT ![ParentId] = ReactAgent_run_except(@, e)]
    /\ UNCHANGED windowVars

ParentReset ==
    /\ frame[ParentId].pc = "idle"
    /\ TotalSeen + 1 <= MaxAgentSeen
    /\ StoreParent(ReactAgent_reset(ParentView))
    /\ solo' = [solo EXCEPT ![ParentId] = ReactAgent_reset(@)]
    /\ UNCHANGED windowVars

CreateSubagent ==
    /\ frame[ParentId].pc = "idle"
    /\ Len(subs) < MaxSubagents
    /\ TotalSeen + 1 <= MaxAgentSeen
    /\ \E c \in CreateInputs :
        LET name == c.name
            system_prompt == c.system_prompt
            max_tokens == c.max_tokens
            id == Len(subs) + 1
            subagent == Subagent_init(name, system_prompt, agent.tools, agent,
                                      Len(cms) + 1, Len(tts) + 1)
            created == [op |-> "create_subagent", name |-> name, kind |-> "return",
                        type |-> "Subagent", value |-> id,
                        max_tokens |-> max_tokens,
                        existed |-> name \in DOMAIN agent.subagents]
        IN  /\ cms' = [Append(cms, Subagent_context(max_tokens))
                          EXCEPT ![subagent.context_manager] =
                            add_message(@, SYSTEM, system_prompt, "", << >>, "")]
            /\ tts' = Append(tts, TokenTracker(DefaultModel, max_tokens))
            /\ subs' = Append(subs, subagent)
            /\ agent' = [agent EXCEPT !.subagents = Register(@, name, id)]
            /\ frame' = WithNew(frame, id, Idle)
            /\ ret' = WithNew([ret EXCEPT ![ParentId] = created], id, NoCall)
            /\ solo' = WithNew([solo EXCEPT ![ParentId].ret = created], id,
                    [cm |-> add_message(Subagent_context(max_tokens), SYSTEM,
                                        system_prompt, "", << >>, ""),
                     tt |-> TokenTracker(DefaultModel, max_tokens),
                     name |-> name,
                     system_prompt |-> system_prompt,
                     max_iterations |-> SubagentMaxIterations,
                     execution_count |-> 0,
                     total_tokens_used |-> 0,
                     frame |-> Idle,
                     ret |-> NoCall])
    /\ UNCHANGED windowVars

SubRunBegin(i) ==
    /\ frame[i].pc = "idle"
    /\ TotalSeen + 2 <= MaxAgentSeen
    /\ \E task \in Tasks :
        /\ StoreSub(i, Subagent_run_begin(SubView(i), task))
        /\ solo' = [solo EXCEPT ![i] = Subagent_run_begin(@, task)]
    /\ UNCHANGED windowVars

SubReactLoop(i) ==
    /\ frame[i].pc = "loop"
    /\ StoreSub(i, Subagent_react_loop(SubView(i)))
    /\ solo' = [solo EXCEPT ![i] = Subagent_react_loop(@)]
    /\ UNCHANGED windowVars

SubRunFinish(i) ==
    /\ frame[i].pc = "finish"
    /\ StoreSub(i, Subagent_run_finish(SubView(i)))
    /\ solo' = [solo EXCEPT ![i] = Subagent_run_finish(@)]
    /\ UNCHANGED windowVars

SubReset(i) ==
    /\ frame[i].pc = "idle"
    /\ TotalSeen + 1 <= MaxAgentSeen
    /\ StoreSub(i, Subagent_reset(SubView(i)))
    /\ solo' = [solo EXCEPT ![i] = Subagent_reset(@)]
    /\ UNCHANGED windowVars

HierNext ==
    \/ ParentRunBegin
    \/ ParentExecutorReturns
    \/ ParentExecutorRaises
    \/ ParentReset
    \/ CreateSubagent
    \/ \E i \in 1..Len(subs) : SubRunBegin(i)
    \/ \E i \in 1..Len(subs) : SubReactLoop(i)
    \/ \E i \in 1..Len(subs) : SubRunFinish(i)
    \/ \E i \in 1..Len(subs) : SubReset(i)

HierSpec == HierInit /\ [][HierNext]_vars

----------------------------------------------------------------------------
(* A ReactAgent with a small token budget and its subagents, driven long    *)
(* enough for run() to find the window near the limit and compact it.       *)

MaxPressureSeen == 17

PressurePrompt == "sys"

PressureMaxTokens == 250

PressureInit ==
    /\ WindowsUnused
    /\ AgentInit(PressurePrompt, PressureMaxTokens)

PressureRunBegin ==
    /\ frame[ParentId].pc = "idle"
    /\ TotalSeen + 2 <= MaxPressureSeen
    /\ \E task \in Tasks :
        /\ StoreParent(ReactAgent_run_begin(ParentView, task))
        /\ solo' = [solo EXCEPT ![ParentId] = ReactAgent_run_begin(@, task)]
    /\ UNCHANGED windowVars

PressureReset ==
    /\ frame[ParentId].pc = "idle"
    /\ TotalSeen + 1 <= MaxPressureSeen
    /\ StoreParent(ReactAgent_reset(ParentView))
    /\ solo' = [solo EXCEPT ![ParentId] = ReactAgent_reset(@)]
    /\ UNCHANGED windowVars

\* create_subagent("a", ...) by a caller that found get_subagent("a") is None
PressureCreateSubagent ==
    /\ get_subagent(agent.subagents, "a") = 0
    /\ CreateSubagent
    /\ ret'[ParentId].name = "a"

PressureSubRunBegin(i) ==
    /\ frame[i].pc = "idle"
    /\ TotalSeen + 2 <= MaxPressureSeen
    /\ \E task \in Tasks :
        /\ StoreSub(i, Subagent_run_begin(SubView(i), task))
        /\ solo' = [solo EXCEPT ![i] = Subagent_run_begin(@, task)]
    /\ UNCHANGED windowVars

PressureSubReset(i) ==
    /\ frame[i].pc = "idle"
    /\ TotalSeen + 1 <= MaxPressureSeen
    /\ StoreSub(i, Subagent_reset(SubView(i)))
    /\ solo' = [solo EXCEPT ![i] = Subagent_reset(@)]
    /\ UNCHANGED windowVars

PressureNext ==
    \/ PressureRunBegin
    \/ ParentExecutorReturns
    \/ ParentExecutorRaises
    \/ PressureReset
    \/ PressureCreateSubagent
    \/ \E i \in 1..Len(subs) : PressureSubRunBegin(i)
    \/ \E i \in 1..Len(subs) : SubReactLoop(i)
    \/ \E i \in 1..Len(subs) : SubRunFinish(i)
    \/ \E i \in 1..Len(subs) : PressureSubReset(i)

PressureSpec == PressureInit /\ [][PressureNext]_vars

----------------------------------------------------------------------------
(* A ReactAgent whose tools change between its runs. *)

MaxTools == 2

CustomTools == { "custom_tool" }

McpServers == { [url |-> "http://mcp", name |-> "mcp"] }

McpToolNames == { "lookup" }

\* the state after a tool operation took the ReactAgent's state to v
StoreTools(v) ==
    /\ agent' = [agent EXCEPT !.tools = v.tools,
                              !.mcp_tools = v.mcp_tools,
                              !.agent_graph = v.graph]
    /\ ret' = [ret EXCEPT ![ParentId] = v.ret]
    /\ UNCHANGED <<cms, tts, subs, frame>>

AddTool ==
    /\ frame[ParentId].pc = "idle"
    /\ Len(agent.tools) < Len(BuiltinTools) + MaxTools
    /\ \E tool \in CustomTools :
        /\ StoreTools(add_tool(ParentView, tool))
        /\ solo' = [solo EXCEPT ![ParentId] = add_tool(@, tool)]
    /\ UNCHANGED windowVars

\* add_mcp_server: the discovery in add_server succeeds or raises
AddMcpServer ==
    /\ frame[ParentId].pc = "idle"
    /\ \E server \in McpServers, success \in BOOLEAN :
        /\ agent' = [agent EXCEPT
                        !.mcp_servers = add_server(@, server.url, server.name),
                        !.agent_graph = add_mcp_server(ParentView, success).graph]
        /\ ret' = [ret EXCEPT ![ParentId] = add_mcp_server(ParentView, success).ret]
        /\ solo' = [solo EXCEPT ![ParentId] = add_mcp_server(@, success)]
    /\ UNCHANGED <<cms, tts, subs, frame, windowVars>>

\* agent.mcp_client.create_custom_tool(name, ...)
CreateCustomTool ==
    /\ frame[ParentId].pc = "idle"
    /\ \E name \in McpToolNames :
        LET v == [ParentView EXCEPT
                    !.mcp_tools = create_custom_tool(@, name),
                    !.ret = [op |-> "create_custom_tool", kind |-> "return",
                             type |-> "StructuredTool", value |-> name]]
        IN  /\ StoreTools(v)
            /\ solo' = [solo EXCEPT ![ParentId].mcp_tools = v.mcp_tools,
                                    ![ParentId].ret = v.ret]
    /\ UNCHANGED windowVars

ToolNext ==
    \/ ParentRunBegin
    \/ ParentExecutorReturns
    \/ ParentExecutorRaises
    \/ AddTool
    \/ AddMcpServer
    \/ CreateCustomTool

ToolSpec == HierInit /\ [][ToolNext]_vars

----------------------------------------------------------------------------
(* A caller of TokenTracker.count_messages_tokens with message lists of its *)
(* own, among them messages that lack the content field.                    *)

MaxCountLen == 3

CountShapes ==
    { [role |-> USER, content |-> "hello"],
      [role |-> ASSISTANT, content |-> ""],
      [role |-> ASSISTANT],
      [role |-> TOOL, content |-> "ok", name |-> "grep", tool_call_id |-> "c1"],
      [role |-> SYSTEM, content |-> "main"] }

CountLists == UNION { [1..n -> CountShapes] : n \in 0..MaxCountLen }

CountMessagesTokens ==
    /\ \E messages \in CountLists :
        last' = [op |-> "count_messages_tokens", messages |-> messages,
                 kind |-> "return", ret |-> count_messages_tokens(messages)]
    /\ UNCHANGED <<agentVars, win, file, exported, snap, winAddr, snapAddr, nextAddr>>

CountNext == CountMessagesTokens

CountSpec == HierInit /\ [][CountNext]_vars

----------------------------------------------------------------------------
(* The subagents of an idle ReactAgent, with runs whose _react_loop can     *)
(* raise.                                                                   *)

LoopErrors == {"boom"}

SubRunRaises(i) ==
    /\ frame[i].pc = "loop"
    /\ \E e \in LoopErrors :
        /\ StoreSub(i, Subagent_run_except(SubView(i), e))
        /\ solo' = [solo EXCEPT ![i] = Subagent_run_except(@, e)]
    /\ UNCHANGED windowVars

FailNext ==
    \/ CreateSubagent
    \/ \E i \in 1..Len(subs) : SubRunBegin(i)
    \/ \E i \in 1..Len(subs) : SubReactLoop(i)
    \/ \E i \in 1..Len(subs) : SubRunFinish(i)
    \/ \E i \in 1..Len(subs) : SubRunRaises(i)
    \/ \E i \in 1..Len(subs) : SubReset(i)

FailSpec == HierInit /\ [][FailNext]_vars

----------------------------------------------------------------------------
(* The ReactAgent and its subagents, with executor calls that can also be   *)
(* cancelled while in flight.                                               *)

ParentExecutorCancelled ==
    /\ frame[ParentId].pc = "invoke"
    /\ StoreParent(ReactAgent_run_interrupted(ParentView))
    /\ solo' = [solo EXCEPT ![ParentId] = ReactAgent_run_interrupted(@)]
    /\ UNCHANGED windowVars

CancelNext == HierNext \/ ParentExecutorCancelled

CancelSpec == HierInit /\ [][CancelNext]_vars

(* One window that is also cleared, exported and restored from its own     *)
(* export.                                                                  *)

RestoreNext ==
    \/ FileAddMessage("w")
    \/ FileCompact("w")
    \/ Clear("w")
    \/ ExportContext("w")
    \/ ImportContext("w")

RestoreSpec == Init /\ [][RestoreNext]_vars

----------------------------------------------------------------------------
(* A persisted record that loses fields between export_context and          *)
(* import_context, and the importing window driven afterwards.              *)

\* the record on disk loses one of its top-level fields
DamageFile ==
    /\ file # NoFile
    /\ \E key \in DOMAIN file \cap {"messages", "metadata"} :
        /\ file' = [k \in DOMAIN file \ {key} |-> file[k]]
        /\ last' = [op |-> "damage", key |-> key]
    /\ UNCHANGED <<agentVars, win, exported, snap, winAddr, snapAddr, nextAddr>>

\* import_context has no failing path for a record that is a JSON object
ImportRecord(w) ==
    /\ file # NoFile
    /\ win' = [win EXCEPT ![w] = import_context(@, json_load(file))]
    /\ last' = [op |-> "import_context", w |-> w, kind |-> "return",
                data |-> json_load(file)]
    /\ UNCHANGED <<agentVars, file, exported, snap, winAddr, snapAddr, nextAddr>>

AddAfterImport(w) ==
    /\ Len(win[w].messages) <= MaxFileMsgs
    /\ \E a \in { x \in FileInputs : x.role = USER } :
        win' = [win EXCEPT ![w] =
                  add_message(@, a.role, a.content, a.name, a.tool_calls,
                              a.tool_call_id)]
    /\ last' = IF add_message_raises(win[w])
               THEN [op |-> "add_message", w |-> w, kind |-> "raise",
                     type |-> "KeyError"]
               ELSE [op |-> "add_message", w |-> w, kind |-> "return",
                     type |-> "None"]
    /\ UNCHANGED <<agentVars, file, exported, snap, winAddr, snapAddr, nextAddr>>

CompactAfterImport(w) ==
    /\ win[w].compaction_count < MaxCompactions
    /\ win' = [win EXCEPT ![w] = compact(@)]
    /\ last' = IF compact_raises(win[w])
               THEN [op |-> "compact", w |-> w, kind |-> "raise",
                     type |-> "KeyError"]
               ELSE [op |-> "compact", w |-> w, kind |-> "return",
                     type |-> "int"]
    /\ UNCHANGED <<agentVars, file, exported, snap, winAddr, snapAddr, nextAddr>>

MalformedNext ==
    \/ FileAddMessage("w")
    \/ ExportContext("w")
    \/ DamageFile
    \/ ImportRecord("t")
    \/ AddAfterImport("t")
    \/ CompactAfterImport("t")

MalformedSpec == Init /\ [][MalformedNext]_vars

----------------------------------------------------------------------------
(* A caller that constructs the window itself, with a CompactionStrategy of *)
(* its choice, and then drives it.                                          *)

\* the keep_first_n / keep_last_n a caller passes, negative ones included
PolicyKeeps == (0 - 1)..MaxKeep

PolicyStrategies ==
    { CompactionStrategy(f, l, s) : f \in PolicyKeeps, l \in PolicyKeeps,
                                    s \in BOOLEAN }

PolicyInputs == { a \in AddInputs : a.role = USER }

\* w = ContextManager(max_tokens=..., compaction_strategy=CompactionStrategy(...))
CreateWindow(w) ==
    /\ \E st \in PolicyStrategies :
        /\ win' = [win EXCEPT ![w] = ContextManager(DefaultMaxTokens, st)]
        /\ last' = [op |-> "ContextManager", w |-> w, kind |-> "return",
                    strategy |-> st]
    /\ UNCHANGED <<agentVars, file, exported, snap, winAddr, snapAddr, nextAddr>>

PolicyAddMessage(w) ==
    /\ AddMessageCall(w, PolicyInputs, MaxMsgs, MaxSeen)
    /\ UNCHANGED <<agentVars, file, exported, snap, winAddr, snapAddr, nextAddr>>

PolicyNext == CreateWindow("w") \/ PolicyAddMessage("w") \/ Compact("w")

PolicySpec == HierInit /\ [][PolicyNext]_vars

----------------------------------------------------------------------------
(* The registry of the ReactAgent: subagents are created, looked up by name *)
(* and run.                                                                 *)

\* the names get_subagent is called with; "c" is never registered
LookupNames == { c.name : c \in CreateInputs } \cup { "c" }

GetSubagent ==
    /\ frame[ParentId].pc = "idle"
    /\ \E name \in LookupNames :
        LET found == [op |-> "get_subagent", name |-> name, kind |-> "return",
                      value |-> get_subagent(agent.subagents, name)]
        IN  /\ ret' = [ret EXCEPT ![ParentId] = found]
            /\ solo' = [solo EXCEPT ![ParentId].ret = found]
    /\ UNCHANGED <<windowVars, cms, tts, agent, subs, frame>>

RegistryNext ==
    \/ CreateSubagent
    \/ GetSubagent
    \/ \E i \in 1..Len(subs) : SubRunBegin(i)
    \/ \E i \in 1..Len(subs) : SubReactLoop(i)
    \/ \E i \in 1..Len(subs) : SubRunFinish(i)

RegistrySpec == HierInit /\ [][RegistryNext]_vars

----------------------------------------------------------------------------
(* A ReactAgent and one Subagent constructed directly, with a max_iterations *)
(* of the caller's choice: Subagent(name, system_prompt, llm,                *)
(* max_iterations=k).                                                        *)

IterationLimits == { 0, 1, 2, SubagentMaxIterations }

LoopInit ==
    /\ WindowsUnused
    /\ \E k \in IterationLimits :
        LET subagent == [Subagent_init("a", "sub", << >>, << >>, 2, 2)
                            EXCEPT !.max_iterations = k]
            cm == add_message(Subagent_context(DefaultMaxTokens), SYSTEM, "sub",
                              "", << >>, "")
            tt == TokenTracker(DefaultModel, DefaultMaxTokens)
        IN  /\ cms = << ReactAgent_context("main", DefaultMaxTokens), cm >>
            /\ tts = << TokenTracker(DefaultModel, DefaultMaxTokens), tt >>
            /\ agent = ReactAgent_init("main", 1, 1)
            /\ subs = << subagent >>
            /\ frame = [id \in 0..1 |-> Idle]
            /\ ret = [id \in 0..1 |-> NoCall]
            /\ solo = [id \in 0..1 |->
                        IF id = ParentId
                        THEN [cm |-> ReactAgent_context("main", DefaultMaxTokens),
                              tt |-> TokenTracker(DefaultModel, DefaultMaxTokens),
                              graph |-> NoGraph,
                              tools |-> BuiltinTools,
                              mcp_tools |-> << >>,
                              system_prompt |-> "main",
                              frame |-> Idle,
                              ret |-> NoCall]
                        ELSE [cm |-> cm,
                              tt |-> tt,
                              name |-> "a",
                              system_prompt |-> "sub",
                              max_iterations |-> k,
                              execution_count |-> 0,
                              total_tokens_used |-> 0,
                              frame |-> Idle,
                              ret |-> NoCall]]

LoopNext ==
    \/ ParentRunBegin
    \/ ParentExecutorReturns
    \/ ParentExecutorRaises
    \/ SubRunBegin(1)
    \/ SubReactLoop(1)
    \/ SubRunFinish(1)
    \/ SubReset(1)

LoopSpec == LoopInit /\ [][LoopNext]_vars

----------------------------------------------------------------------------
(* A caller driving the ReactAgent's TokenTracker directly.  last carries   *)
(* the call just made, what it returned, and a tally of what the caller has  *)
(* recorded since the last reset, kept by the caller.                        *)

UsageBudget == 40

\* the prompt_tokens and completion_tokens record_usage is called with
UsageInputs == { [p |-> 7, c |-> 5], [p |-> 25, c |-> 0], [p |-> 0, c |-> 25] }

\* thresholds are ThresholdNums / ThresholdDen: 0.0, 0.1, ..., 1.0
ThresholdDen == 10
ThresholdNums == 0..ThresholdDen

\* the message lists is_near_limit is called with
LimitMessages ==
    LET m == [role |-> USER, content |-> "q"]
    IN  { << >>, << m >>, << m, m >>, << m, m, m >> }

NothingRecorded == [prompt |-> 0, completion |-> 0, count |-> 0, was_reset |-> FALSE]

Tracker == tts[agent.token_tracker]

UsageInit ==
    /\ win = [w \in Windows |->
                ContextManager(DefaultMaxTokens, CompactionStrategy(2, 10, TRUE))]
    /\ last = [op |-> "init", recorded |-> NothingRecorded]
    /\ file = NoFile
    /\ exported = NoFile
    /\ snap = << >>
    /\ winAddr = [w \in Windows |-> << >>]
    /\ snapAddr = << >>
    /\ nextAddr = 1
    /\ AgentInit("main", UsageBudget)

UsageFrame ==
    UNCHANGED <<win, file, exported, snap, winAddr, snapAddr, nextAddr,
                cms, agent, subs, frame, ret, solo>>

RecordUsage ==
    /\ Len(Tracker.usage_history) < MaxUsage
    /\ \E u \in UsageInputs :
        LET p == u.p
            c == u.c
            tt == record_usage(Tracker, p, c, "")
        IN  /\ tts' = [tts EXCEPT ![agent.token_tracker] = tt]
            /\ last' = [op |-> "record_usage", p |-> p, c |-> c, kind |-> "return",
                        ret |-> tt.usage_history[Len(tt.usage_history)],
                        recorded |-> [last.recorded EXCEPT !.prompt = @ + p,
                                                           !.completion = @ + c,
                                                           !.count = @ + 1]]
    /\ UsageFrame

TrackerReset ==
    /\ tts' = [tts EXCEPT ![agent.token_tracker] = tracker_reset(@)]
    /\ last' = [op |-> "reset", kind |-> "return",
                recorded |-> [NothingRecorded EXCEPT !.was_reset = TRUE]]
    /\ UsageFrame

GetTotalUsage ==
    /\ last' = [op |-> "get_total_usage", kind |-> "return",
                ret |-> get_total_usage(Tracker), recorded |-> last.recorded]
    /\ UNCHANGED tts
    /\ UsageFrame

IsNearLimit ==
    /\ \E messages \in LimitMessages, num \in ThresholdNums :
        last' = [op |-> "is_near_limit", kind |-> "return", messages |-> messages,
                 num |-> num,
                 ret |-> is_near_limit(Tracker, messages, num, ThresholdDen),
                 recorded |-> last.recorded]
    /\ UNCHANGED tts
    /\ UsageFrame

UsageNext == RecordUsage \/ TrackerReset \/ GetTotalUsage \/ IsNearLimit

UsageSpec == UsageInit /\ [][UsageNext]_vars

----------------------------------------------------------------------------
(* Claims about compact(), add_message() and clear() on one window *)

KeepFirst(w) == win[w].compaction_strategy.keep_first_n
KeepLast(w) == win[w].compaction_strategy.keep_last_n
LiveCount(w) == Len(win[w].messages)

\* C1: after compact() on a window that held n > keep_first_n + keep_last_n
\* messages, the window holds exactly keep_first_n + keep_last_n + 1 messages
\* when summarize_middle is true and keep_first_n + keep_last_n when it is
\* false (keep_last_n = 0 included); after any compact() it holds at most
\* keep_first_n + keep_last_n + 1 messages.
C1_CompactLeavesKeptPlusSummary ==
    last.op = "compact" =>
        /\ last.n > KeepFirst(last.w) + KeepLast(last.w) =>
                LiveCount(last.w) =
                    KeepFirst(last.w) + KeepLast(last.w)
                    + (IF win[last.w].compaction_strategy.summarize_middle
                       THEN 1 ELSE 0)
        /\ LiveCount(last.w) <= KeepFirst(last.w) + KeepLast(last.w) + 1

\* C2: compact() on a window holding n <= keep_first_n + keep_last_n messages
\* returns 0 and leaves the messages, compaction_count, total_messages_seen
\* and tokens_saved of the window unchanged.
C2_SmallWindowCompactIsNoop ==
    [][ (/\ last'.op = "compact"
         /\ LiveCount(last'.w) <= KeepFirst(last'.w) + KeepLast(last'.w))
        => /\ last'.ret = 0
           /\ win'[last'.w].messages = win[last'.w].messages
           /\ win'[last'.w].compaction_count = win[last'.w].compaction_count
           /\ get_state(win'[last'.w]) = get_state(win[last'.w])
           /\ win'[last'.w].metadata = win[last'.w].metadata ]_vars

C2_Witness ==
    /\ last.op = "compact"
    /\ last.n >= 1
    /\ last.n = KeepFirst(last.w) + KeepLast(last.w)
    /\ LiveCount(last.w) = last.n

\* C9: total_messages_seen grows by exactly 1 on every add_message call and
\* no add_message, compact or clear call ever decreases it.
C9_TotalSeenCountsAdds ==
    [][ \A w \in Windows :
          /\ (last'.op = "add_message" /\ last'.w = w) =>
                get_state(win'[w]).total_messages_seen
                    = get_state(win[w]).total_messages_seen + 1
          /\ get_state(win'[w]).total_messages_seen
                >= get_state(win[w]).total_messages_seen ]_vars

C9_Witness ==
    /\ last.op = "clear"
    /\ win[last.w].compaction_count >= 1
    /\ get_state(win[last.w]).total_messages_seen >= 2
    /\ LiveCount(last.w) = 0

----------------------------------------------------------------------------
(* Claims about get_messages() and export_context() / import_context() *)

\* C8: get_messages() returns a defensive copy: appending to the returned
\* list, removing from it, or modifying a field of a returned message never
\* changes the messages of any window.
C8_SnapshotIsDefensiveCopy ==
    [][ last'.op \in {"caller_append", "caller_remove", "caller_set_field"}
        => \A w \in Windows : win'[w].messages = win[w].messages ]_vars

\* C10: after import_context of what a window exported, the importing window
\* has the exporter's messages, compaction_count, total_messages_seen and
\* tokens_saved, whatever it held before.
C10_ImportReproducesExport ==
    last.op = "import_context" =>
        /\ win[last.w].messages = exported.messages
        /\ get_state(win[last.w]).compaction_count
                = get_state(exported).compaction_count
        /\ get_state(win[last.w]).total_messages_seen
                = get_state(exported).total_messages_seen
        /\ get_state(win[last.w]).tokens_saved = get_state(exported).tokens_saved

C10_Witness ==
    /\ last.op = "import_context"
    /\ last.pre.messages # << >>
    /\ last.pre.compaction_count >= 1
    /\ last.pre.messages # exported.messages
    /\ last.pre.metadata # exported.metadata
    /\ exported.compaction_count >= 1
    /\ exported.messages # << >>
    /\ C10_ImportReproducesExport

----------------------------------------------------------------------------
(* Claims about run(), reset() and create_subagent() on the agents *)

Messages(id) == View(id).cm.messages

\* what the claims compare of one agent: its window and its usage history
WindowAndUsage(id) ==
    [window |-> View(id).cm, usage_history |-> View(id).tt.usage_history]

ParentStep ==
    ParentRunBegin \/ ParentExecutorReturns \/ ParentExecutorRaises \/ ParentReset

SubStep(i) == SubRunBegin(i) \/ SubReactLoop(i) \/ SubRunFinish(i) \/ SubReset(i)

\* C3: a run() whose executor failed returns a result with success = false
\* and leaves the window one message longer than before the call (the User
\* task only, no Assistant message), for the ReactAgent and for Subagents.
C3_FailedRunAppendsOnlyTask ==
    \A id \in AgentIds :
        (frame[id].pc = "idle" /\ ret[id].op = "run" /\ ret[id].executor = "error")
        => /\ Len(Messages(id)) = ret[id].n0 + 1
           /\ ret[id].kind = "return"
           /\ ret[id].type = "SubagentResult"
           /\ ret[id].value.success = FALSE

\* C4: every run() ends by returning a value and leaves the agent idle, also
\* when the executor raised: the failure is not propagated but turned into
\* the returned text.
C4_RunReturnsOnExecutorFailure ==
    [][ \A id \in AgentIds :
          (frame[id].pc # "idle" /\ frame'[id].pc = "idle")
          => /\ ret'[id].op = "run"
             /\ ret'[id].kind = "return"
             /\ ret'[id].executor = "error" =>
                    \E e \in ExecutorErrors :
                        ret'[id].value = "Error executing task: " \o e ]_vars

\* a run() that returned the executor's response after an earlier run() on
\* the same agent had failed
C4_Witness ==
    /\ frame[ParentId].pc = "idle"
    /\ ret[ParentId].op = "run"
    /\ ret[ParentId].executor = "ok"
    /\ ret[ParentId].kind = "return"
    /\ \E k \in 1..Len(Messages(ParentId)) :
          Messages(ParentId)[k].content = "Error executing task: timeout"

\* C5: a step of run() or reset() on a subagent leaves the window and usage
\* history of the ReactAgent and of every other subagent unchanged; a step of
\* run() or reset() on the ReactAgent leaves every subagent's window and
\* usage history and the name registry unchanged.
C5_AgentsChangeOnlyTheirOwnState ==
    [][ /\ \A i \in 1..Len(subs) :
              SubStep(i) =>
                \A other \in AgentIds \ {i} :
                    WindowAndUsage(other)' = WindowAndUsage(other)
        /\ ParentStep =>
              /\ \A i \in 1..Len(subs) : WindowAndUsage(i)' = WindowAndUsage(i)
              /\ agent'.subagents = agent.subagents ]_vars

C5_Witness ==
    /\ Len(subs) = 2
    /\ ret[1].op = "run"
    /\ ret[2].op = "reset"
    /\ ret[ParentId].op = "run"
    /\ Len(Messages(ParentId)) = 3
    /\ Len(Messages(1)) = 3
    /\ Len(Messages(2)) = 1
    /\ Len(View(ParentId).tt.usage_history) = 1

\* what C6 compares of one agent
Outcome(v) ==
    [messages |-> v.cm.messages,
     usage_history |-> v.tt.usage_history,
     compaction_count |-> v.cm.compaction_count,
     execution_count |-> PyGet(v, "execution_count", 0)]

\* C6: however the steps of calls on different agents interleave, each
\* agent's messages, usage history, compaction_count and execution_count are
\* those of executing its own calls alone, in the same order.
C6_InterleavingIndependent ==
    \A id \in AgentIds : Outcome(View(id)) = Outcome(solo[id])

\* three run() calls in flight at once, after earlier calls on each agent
C6_Witness ==
    /\ Len(subs) = 2
    /\ frame[ParentId].pc = "invoke"
    /\ frame[1].pc = "finish"
    /\ frame[2].pc = "loop"
    /\ Len(Messages(ParentId)) >= 4
    /\ Len(View(1).tt.usage_history) >= 1
    /\ C6_InterleavingIndependent

\* C7: create_subagent under a name already in the registry yields an error
\* and leaves the subagent registered before in place.
C7_DuplicateNameRejected ==
    (ret[ParentId].op = "create_subagent" /\ ret[ParentId].existed)
    => /\ ret[ParentId].kind = "raise"
       /\ get_subagent(agent.subagents, ret[ParentId].name) # ret[ParentId].value

----------------------------------------------------------------------------
(* Claims about reset() and the creation of agents *)

\* the System message add_message(SYSTEM, system_prompt) appends
SystemMessage(system_prompt) == [role |-> SYSTEM, content |-> system_prompt]

\* C11: after reset() the agent's window holds exactly one message, the
\* System message with the agent's system_prompt, the usage history is empty,
\* the tracker's max_tokens is what it was, and a Subagent's execution_count
\* is 0.
C11_ResetReseedsWindowAndTracker ==
    [][ \A id \in AgentIds :
          (frame'[id].pc = "idle" /\ ret'[id].op = "reset")
          => /\ Messages(id)' = << SystemMessage(View(id).system_prompt) >>
             /\ View(id)'.tt.usage_history = << >>
             /\ View(id)'.tt.max_tokens = View(id).tt.max_tokens
             /\ id # ParentId => View(id)'.execution_count = 0 ]_vars

\* both kinds of agent reset after runs that filled their windows and usage
\* histories
C11_Witness ==
    /\ Len(subs) >= 1
    /\ frame[1].pc = "idle" /\ ret[1].op = "reset" /\ Seen(1) >= 4
    /\ frame[ParentId].pc = "idle" /\ ret[ParentId].op = "reset"
    /\ Seen(ParentId) >= 4

\* the ContextManager and TokenTracker objects some agent of the state holds
ContextRefs == { agent.context_manager } \cup { subs[i].context_manager : i \in 1..Len(subs) }
TrackerRefs == { agent.token_tracker } \cup { subs[i].token_tracker : i \in 1..Len(subs) }

\* cm and tt are as a constructor called with this system_prompt and
\* max_tokens leaves them
FreshObjects(cm, tt, system_prompt, max_tokens) ==
    /\ cm.messages = << SystemMessage(system_prompt) >>
    /\ tt.usage_history = << >>
    /\ tt.max_tokens = max_tokens

\* C12: a newly created ReactAgent or Subagent has a window of exactly one
\* message, the System message with its system_prompt, and a tracker with an
\* empty usage history and the max_tokens it was created with; its window
\* and tracker are objects no other agent holds.
C12_NewAgentOwnsFreshWindowAndTracker ==
    /\ FreshObjects(ParentView.cm, ParentView.tt, "main", DefaultMaxTokens)
    /\ [][ Len(subs') = Len(subs) + 1 =>
             LET new == subs'[Len(subs')]
                 created == ret'[ParentId]
             IN  /\ created.op = "create_subagent" /\ created.value = Len(subs')
                 /\ \E c \in CreateInputs :
                        /\ c.name = created.name
                        /\ c.max_tokens = created.max_tokens
                        /\ FreshObjects(cms'[new.context_manager],
                                        tts'[new.token_tracker],
                                        c.system_prompt, c.max_tokens)
                 /\ new.context_manager \notin ContextRefs
                 /\ new.token_tracker \notin TrackerRefs
                 /\ Cardinality(ContextRefs') = Len(subs') + 1
                 /\ Cardinality(TrackerRefs') = Len(subs') + 1 ]_vars

\* a second subagent, with the small budget, created while the ReactAgent and
\* the first subagent hold windows and usage histories filled by their runs
C12_Witness ==
    /\ Len(subs) = 2
    /\ ret[ParentId].op = "create_subagent" /\ ret[ParentId].value = 2
    /\ ret[ParentId].max_tokens = 40
    /\ FreshObjects(View(2).cm, View(2).tt, "sub", 40)
    /\ Len(Messages(1)) >= 3 /\ Len(View(1).tt.usage_history) >= 1
    /\ Len(Messages(ParentId)) >= 3

----------------------------------------------------------------------------
(* Claims about clear() on one window *)

\* C13: clear() empties the live message sequence and leaves
\* total_messages_seen, compaction_count and the cumulative tokens_saved as
\* they were.
C13_ClearKeepsCounters ==
    [][ last'.op = "clear" =>
          LET w == last'.w
          IN  /\ win'[w].messages = << >>
              /\ get_state(win'[w]).message_count = 0
              /\ get_state(win'[w]).total_messages_seen
                    = get_state(win[w]).total_messages_seen
              /\ get_state(win'[w]).compaction_count
                    = get_state(win[w]).compaction_count
              /\ get_state(win'[w]).tokens_saved = get_state(win[w]).tokens_saved
              /\ win'[w].metadata = win[w].metadata ]_vars

\* a clear() of a window that had seen messages and been compacted, saving
\* or costing tokens
C13_Witness ==
    /\ last.op = "clear"
    /\ win["w"].messages = << >>
    /\ win["w"].metadata.total_messages >= 3
    /\ win["w"].compaction_count >= 1
    /\ win["w"].metadata.tokens_saved # 0

----------------------------------------------------------------------------
(* Claims about the TokenTracker *)

\* C14: after any sequence of record_usage and reset calls, get_total_usage()
\* reports the sums of the prompt_tokens and of the completion_tokens
\* recorded since the last reset, their sum as total_tokens, the number of
\* records as interaction_count, and max_tokens - total_tokens as
\* tokens_remaining, negative when usage exceeds the budget.
C14_TotalUsageSumsRecords ==
    last.op = "get_total_usage"
    => /\ last.ret.total_prompt_tokens = last.recorded.prompt
       /\ last.ret.total_completion_tokens = last.recorded.completion
       /\ last.ret.total_tokens
            = last.ret.total_prompt_tokens + last.ret.total_completion_tokens
       /\ last.ret.interaction_count = last.recorded.count
       /\ last.ret.tokens_remaining = UsageBudget - last.ret.total_tokens
       /\ (last.ret.total_tokens > UsageBudget) = (last.ret.tokens_remaining < 0)

\* usage over the budget, recorded after a reset that dropped earlier records
C14_Witness ==
    /\ last.op = "get_total_usage"
    /\ last.recorded.was_reset
    /\ last.ret.interaction_count >= 2
    /\ last.ret.total_prompt_tokens > 0
    /\ last.ret.total_completion_tokens > 0
    /\ last.ret.tokens_remaining < 0

\* C15: is_near_limit is monotonic in threshold: when it is true at a
\* threshold t, it is true at every threshold t' <= t, for the same tracker
\* and messages.
C15_NearLimitMonotonicInThreshold ==
    (last.op = "is_near_limit" /\ last.ret)
    => \A lower \in ThresholdNums :
          lower <= last.num
          => is_near_limit(Tracker, last.messages, lower, ThresholdDen)

\* near the limit at a threshold above 0 and not near it at a higher one
C15_Witness ==
    /\ last.op = "is_near_limit" /\ last.ret
    /\ last.num >= 1
    /\ last.messages # << >>
    /\ \E higher \in ThresholdNums :
          /\ higher > last.num
          /\ ~is_near_limit(Tracker, last.messages, higher, ThresholdDen)

\* C16: record_usage(p, c) returns normally, appends exactly one record to
\* the usage history and returns that record, whose total_tokens is p + c;
\* no call other than reset() removes or changes a record appended before.
C16_UsageHistoryAppendOnly ==
    [][ /\ last'.op = "record_usage" =>
              /\ last'.kind = "return"
              /\ Tracker'.usage_history = Append(Tracker.usage_history, last'.ret)
              /\ last'.ret.prompt_tokens = last'.p
              /\ last'.ret.completion_tokens = last'.c
              /\ last'.ret.total_tokens = last'.p + last'.c
        /\ last'.op # "reset" =>
              /\ Len(Tracker'.usage_history) >= Len(Tracker.usage_history)
              /\ SubSeq(Tracker'.usage_history, 1, Len(Tracker.usage_history))
                    = Tracker.usage_history ]_vars

\* a record appended behind two earlier ones
C16_Witness ==
    /\ last.op = "record_usage"
    /\ Len(Tracker.usage_history) = 3
    /\ Tracker.usage_history[3] = last.ret
    /\ last.ret.total_tokens = 12
    /\ Tracker.usage_history[1] # Tracker.usage_history[3]

----------------------------------------------------------------------------
(* Claims about the steps of one run() *)

\* C17: each run() performs exactly one reasoning step, whatever
\* max_iterations is: a Subagent's loop ends after one iteration, having
\* recorded one usage record and appended one Assistant message, and the
\* ReactAgent's single executor call ends with one Assistant message
\* appended and at most one usage record.
C17_OneReasoningStepPerRun ==
    [][ /\ (frame[1].pc = "loop" /\ frame'[1].pc = "finish")
            => /\ frame'[1].iterations = 1
               /\ Len(View(1)'.tt.usage_history)
                    = Len(View(1).tt.usage_history) + 1
               /\ Len(WithRole(Messages(1)', ASSISTANT))
                    = Len(WithRole(Messages(1), ASSISTANT)) + 1
        /\ (frame[ParentId].pc = "invoke" /\ frame'[ParentId].pc = "idle")
            => /\ Len(WithRole(Messages(ParentId)', ASSISTANT))
                    = Len(WithRole(Messages(ParentId), ASSISTANT)) + 1
               /\ Len(ParentView'.tt.usage_history)
                    <= Len(ParentView.tt.usage_history) + 1 ]_vars

NothingDropped(id) ==
    /\ View(id).cm.compaction_count = 0
    /\ Seen(id) = Len(Messages(id))

\* the step appends message at the end of agent id's window: it becomes the
\* newest message, and unless the step compacts, the messages before it are
\* the window as it was
AppendsLast(id, message) ==
    /\ Messages(id)'[Len(Messages(id)')] = message
    /\ View(id)'.cm.compaction_count = View(id).cm.compaction_count
        => Messages(id)' = Append(Messages(id), message)

\* C19: with the run() calls on one agent serialized, each run appends its
\* User task at the end of the window and later its Assistant response at
\* the end of the window; without compaction (and reset), the window of an
\* idle agent after k runs that all succeeded is
\* [System, User_1, Assistant_1, ..., User_k, Assistant_k].
C19_TaskThenResponseInCallOrder ==
    /\ [][ \A id \in AgentIds :
              /\ (frame[id].pc = "idle" /\ frame'[id].pc \in {"invoke", "loop"})
                  => AppendsLast(id, [role |-> USER, content |-> frame'[id].task])
              /\ (frame[id].pc = "invoke" /\ frame'[id].pc = "idle"
                      /\ ret'[id].executor = "ok")
                  => AppendsLast(id, [role |-> ASSISTANT,
                                      content |-> ret'[id].value])
              /\ (frame[id].pc = "loop" /\ frame'[id].pc = "finish")
                  => AppendsLast(id, [role |-> ASSISTANT,
                                      content |-> frame'[id].result])
              /\ (frame[id].pc = "finish" /\ frame'[id].pc = "idle")
                  => Messages(id)' = Messages(id) ]_vars
    /\ [](\A id \in AgentIds :
            LET k == Len(View(id).tt.usage_history)
            IN  (frame[id].pc = "idle" /\ NothingDropped(id)
                    /\ Len(Messages(id)) = 1 + 2 * k)
                => /\ Messages(id)[1].role = SYSTEM
                   /\ \A j \in 1..k :
                        /\ Messages(id)[2 * j].role = USER
                        /\ Messages(id)[2 * j].content \in Tasks
                        /\ Messages(id)[2 * j + 1].role = ASSISTANT)

\* the ReactAgent after two successful runs, a subagent having completed a
\* run of its own in between
C19_Witness ==
    /\ frame[ParentId].pc = "idle" /\ NothingDropped(ParentId)
    /\ Len(ParentView.tt.usage_history) = 2
    /\ Len(Messages(ParentId)) = 5
    /\ Len(subs) >= 1
    /\ frame[1].pc = "idle" /\ NothingDropped(1)
    /\ Len(Messages(1)) = 3 /\ Len(View(1).tt.usage_history) = 1

----------------------------------------------------------------------------
(* Claims about the registry *)

\* the subagents created under this name, in creation order
CreatedAs(name) == { i \in 1..Len(subs) : subs[i].name = name }

\* C20: get_subagent(name) returns the subagent registered under the name,
\* which is the one create_subagent created last under it, and None (0) for
\* a name under which none was created; it leaves the registry and the
\* subagents as they are.
C20_LookupReturnsRegistered ==
    /\ [](ret[ParentId].op = "get_subagent" =>
            LET ids == CreatedAs(ret[ParentId].name)
            IN  IF ids = {} THEN ret[ParentId].value = 0
                ELSE /\ ret[ParentId].value \in ids
                     /\ \A i \in ids : i <= ret[ParentId].value)
    /\ [][ (ret'[ParentId].op = "get_subagent" /\ ret'[ParentId] # ret[ParentId])
            => /\ agent'.subagents = agent.subagents
               /\ subs' = subs ]_vars

\* a lookup that returns the second subagent, which has completed a run
C20_Witness ==
    /\ ret[ParentId].op = "get_subagent"
    /\ Len(subs) = 2
    /\ subs[1].name # subs[2].name
    /\ ret[ParentId].name = subs[2].name
    /\ ret[ParentId].value = 2
    /\ ret[2].op = "run" /\ frame[2].pc = "idle"

----------------------------------------------------------------------------
(* Claims about the compaction policy *)

ValidPolicy(strategy) == strategy.keep_first_n >= 0 /\ strategy.keep_last_n >= 0

\* C21: constructing a window with an invalid compaction policy (a negative
\* keep_first_n or keep_last_n) raises ConfigurationError, so that no window
\* ever operates under an invalid policy.
C21_InvalidPolicyRejected ==
    /\ (last.op = "ContextManager" /\ ~ValidPolicy(last.strategy))
        => last.kind = "raise"
    /\ \A w \in Windows : ValidPolicy(win[w].compaction_strategy)

----------------------------------------------------------------------------
(* Claims about malformed persisted records *)

\* a persisted record lacking the messages or the metadata field
Malformed(data) == ~({"messages", "metadata"} \subseteq DOMAIN data)

\* C22: import_context of a malformed record raises (SerializationError)
\* instead of installing a partial state, and a window that has completed an
\* import accepts add_message and compact without error.
C22_MalformedImportRejected ==
    /\ (last.op = "import_context" /\ Malformed(last.data)) => last.kind = "raise"
    /\ (last.op \in {"add_message", "compact"} /\ last.w = "t")
        => last.kind = "return"

----------------------------------------------------------------------------
(* Claims about what an effective compaction does to the window *)

\* the compact() call of this step found more messages than the policy keeps
EffectiveCompaction(w) ==
    /\ last'.op = "compact"
    /\ last'.w = w
    /\ Len(win[w].messages) > win[w].compaction_strategy.keep_first_n
                                + win[w].compaction_strategy.keep_last_n

\* C23: whenever compact() is applied to a window holding more messages than
\* keep_first_n + keep_last_n, the number of live messages strictly
\* decreases.
C23_EffectiveCompactionShrinks ==
    [][ \A w \in Windows :
          EffectiveCompaction(w) =>
              Len(win'[w].messages) < Len(win[w].messages) ]_vars

----------------------------------------------------------------------------
(* Claims about the Subagent's execution metadata *)

\* C24: a Subagent's execution_count increases by exactly 1 on every run()
\* call, whether the run then succeeds or fails, is set to 0 by reset(), and
\* is changed by no other operation.
C24_ExecutionCountCountsRuns ==
    [][ \A i \in 1..Len(subs) :
          LET before == subs[i].execution_count
              after == subs'[i].execution_count
              run_called == frame[i].pc = "idle" /\ frame'[i].pc = "loop"
              reset_called == /\ frame[i].pc = "idle"
                              /\ frame'[i].pc = "idle"
                              /\ ret'[i].op = "reset"
          IN  /\ run_called => after = before + 1
              /\ reset_called => after = 0
              /\ after # before => run_called \/ (reset_called /\ after = 0)
              /\ (frame[i].pc # "idle" /\ frame'[i].pc = "idle")
                    => (ret'[i].op = "run" /\ after = before) ]_vars

\* a subagent whose second run() failed after a first one succeeded
C24_Witness ==
    \E i \in 1..Len(subs) :
        /\ subs[i].execution_count = 2
        /\ frame[i].pc = "idle"
        /\ ret[i].op = "run"
        /\ ~ret[i].value.success
        /\ Len(cms[subs[i].context_manager].messages) = 4

\* the first n and the last n elements of a list
FirstN(list, n) == SubSeq(list, 1, n)
LastN(list, n) == SubSeq(list, Len(list) - n + 1, Len(list))

\* no object occurs at two positions of a list of object identities
NoDuplicates(addrs) ==
    \A i, j \in 1..Len(addrs) : addrs[i] = addrs[j] => i = j

\* C25: an effective compaction never reorders or alters retained messages:
\* afterwards the first keep_first_n messages are the first keep_first_n
\* messages before the call, the last keep_last_n are the last keep_last_n
\* before the call, in the same order, and no original message appears twice.
C25_CompactionKeepsRetainedMessages ==
    [][ EffectiveCompaction("w") =>
          LET f == win["w"].compaction_strategy.keep_first_n
              l == win["w"].compaction_strategy.keep_last_n
          IN  /\ FirstN(win'["w"].messages, f) = FirstN(win["w"].messages, f)
              /\ FirstN(winAddr'["w"], f) = FirstN(winAddr["w"], f)
              /\ LastN(win'["w"].messages, l) = LastN(win["w"].messages, l)
              /\ LastN(winAddr'["w"], l) = LastN(winAddr["w"], l)
              /\ NoDuplicates(winAddr'["w"]) ]_vars

\* the middle segment: what lies between the first keep_first_n and the last
\* keep_last_n messages
MiddleSegment(messages, f, l) == SubSeq(messages, f + 1, Len(messages) - l)

\* C26: when summarize_middle is true and the middle segment is non-empty,
\* compaction inserts exactly one synthetic message at index keep_first_n,
\* with role System and a content starting with the number of compressed
\* messages, n - keep_first_n - keep_last_n; when summarize_middle is false
\* the middle is discarded and no synthetic message is inserted.
C26_OneSummaryAtKeepFirst ==
    [][ \A w \in Windows :
          EffectiveCompaction(w) =>
            LET before == win[w].messages
                after == win'[w].messages
                f == win[w].compaction_strategy.keep_first_n
                l == win[w].compaction_strategy.keep_last_n
                n == Len(before)
                middle == MiddleSegment(before, f, l)
            IN  IF win[w].compaction_strategy.summarize_middle /\ middle # << >>
                THEN /\ Len(after) = f + 1 + l
                     /\ after[f + 1].role = SYSTEM
                     /\ after[f + 1].content =
                            "[Context Summary - " \o ToString(n - f - l)
                            \o " messages compressed]\n"
                            \o _summarize_messages(middle)
                     /\ FirstN(after, f) = FirstN(before, f)
                     /\ LastN(after, l) = LastN(before, l)
                ELSE after = FirstN(before, f) \o LastN(before, l) ]_vars

\* C27: the digest of a summarizing compaction has exactly one entry per
\* middle message, in their order, whatever the role of the message (User,
\* Assistant with or without tool calls, Tool, System, an earlier summary
\* message included).
C27_DigestHasOneEntryPerMessage ==
    [][ \A w \in Windows :
          (EffectiveCompaction(w) /\ Summarizes(win[w])) =>
            LET strategy == win[w].compaction_strategy
                middle == middle_messages(win[w].messages, strategy)
                entries == SummaryParts(middle)
            IN  /\ win'[w].messages[strategy.keep_first_n + 1].content =
                        "[Context Summary - " \o ToString(Len(middle))
                        \o " messages compressed]\n" \o Join(entries, "\n")
                /\ Len(entries) = Len(middle)
                /\ \A k \in 1..Len(middle) :
                        << entries[k] >> = SummaryParts(<< middle[k] >>) ]_vars

----------------------------------------------------------------------------
(* Claims about the counters an effective compaction maintains *)

\* C28: every effective compact() returns count_messages_tokens(window
\* before) - count_messages_tokens(window after), negative values included,
\* and the cumulative tokens_saved is the sum of the values returned by all
\* compact() calls on the window: 0 at first, grown by the returned value on
\* every compact() call and changed by nothing else.
C28_SavedIsDifferenceAndAccumulates ==
    /\ \A w \in Windows : get_state(win[w]).tokens_saved = 0
    /\ [][ \A w \in Windows :
            /\ EffectiveCompaction(w) =>
                  last'.ret = count_messages_tokens(win[w].messages)
                              - count_messages_tokens(win'[w].messages)
            /\ get_state(win'[w]).tokens_saved =
                  IF last'.op = "compact" /\ last'.w = w
                  THEN get_state(win[w]).tokens_saved + last'.ret
                  ELSE get_state(win[w]).tokens_saved ]_vars

\* a second compaction in a row that cost tokens instead of saving them
C28_Witness ==
    /\ last.op = "compact"
    /\ last.ret < 0
    /\ win[last.w].compaction_count = 2
    /\ get_state(win[last.w]).tokens_saved < last.ret

\* C29: compaction_count never decreases under add_message, clear and
\* compact: it increases by exactly 1 on each effective compaction and is
\* unchanged by a no-op compact(), by add_message and by clear().
C29_CompactionCountCountsEffective ==
    [][ \A w \in Windows :
          LET before == get_state(win[w]).compaction_count
              after == get_state(win'[w]).compaction_count
          IN  /\ after >= before
              /\ after = IF EffectiveCompaction(w) THEN before + 1 ELSE before
              /\ win'[w].compaction_count = after ]_vars

\* a compact() that found nothing to compact in a window compacted before
C29_Witness ==
    /\ last.op = "compact"
    /\ last.n <= win[last.w].compaction_strategy.keep_first_n
                 + win[last.w].compaction_strategy.keep_last_n
    /\ last.ret = 0
    /\ get_state(win[last.w]).compaction_count = 1

----------------------------------------------------------------------------
(* Claims about count_messages_tokens *)

\* count_tokens of one field of a message, nothing if the field is absent
FieldCount(message, key) ==
    IF key \in DOMAIN message THEN count_tokens(message[key]) ELSE 0

\* 4 plus the count_tokens of every field present in the message
MessageCount(message) ==
    4 + FieldCount(message, "role") + FieldCount(message, "content")
      + FieldCount(message, "name") + FieldCount(message, "tool_calls")
      + FieldCount(message, "tool_call_id")

\* the sum of MessageCount over the first n messages
RECURSIVE MessageCounts(_, _)
MessageCounts(messages, n) ==
    IF n = 0 THEN 0
    ELSE MessageCounts(messages, n - 1) + MessageCount(messages[n])

\* the messages, each one lacking content given the empty string as content
WithEmptyContent(messages) ==
    [i \in 1..Len(messages) |->
        IF "content" \in DOMAIN messages[i] THEN messages[i]
        ELSE [k \in DOMAIN messages[i] \cup {"content"} |->
                IF k = "content" THEN "" ELSE messages[i][k]]]

\* C30: count_messages_tokens(messages) is 2 plus, for each message, 4 plus
\* the sum of count_tokens over the fields present in the message; it does
\* not fail on a message lacking the content field, which counts as if its
\* content were the empty string; it is 2 for the empty list.
C30_CountIsFramingPlusFields ==
    last.op = "count_messages_tokens" =>
        /\ last.kind = "return"
        /\ last.ret = 2 + MessageCounts(last.messages, Len(last.messages))
        /\ last.ret = count_messages_tokens(WithEmptyContent(last.messages))
        /\ last.messages = << >> => last.ret = 2

\* a count over a list that holds a message without content among others
C30_Witness ==
    /\ last.op = "count_messages_tokens"
    /\ Len(last.messages) = MaxCountLen
    /\ \E i \in 1..Len(last.messages) : "content" \notin DOMAIN last.messages[i]
    /\ \E i \in 1..Len(last.messages) : last.messages[i].role = TOOL
    /\ last.ret > 2 + 4 * Len(last.messages)

----------------------------------------------------------------------------
(* Claims about the compaction run() performs *)

Window(id) == View(id).cm

\* count_messages of the messages is at least 0.7 * max_tokens
NearLimit(messages, max_tokens) ==
    10 * count_messages_tokens(messages) >= 7 * max_tokens

\* what the compaction policy of a window keeps
Kept(cm) == cm.compaction_strategy.keep_first_n + cm.compaction_strategy.keep_last_n

\* the step in which the ReactAgent's run() appends the task, checks the
\* limit and reaches the executor call
ParentChecksLimit == frame[ParentId].pc = "idle" /\ frame'[ParentId].pc = "invoke"

\* the step in which subagent i's _react_loop checks the limit and files the
\* response
SubChecksLimit(i) == frame[i].pc = "loop" /\ frame'[i].pc = "finish"

\* C31: in run(), compact() is invoked if and only if count_messages of the
\* window including the just-appended User task is >= 0.7 * max_tokens
\* (equality counts), after the User task is appended and before the
\* executor is called and any Assistant message is appended.
C31_CompactsIffNearLimitWithTask ==
    [][ /\ ParentChecksLimit =>
            LET cm == cms[agent.context_manager]
                cm1 == cms'[agent.context_manager]
                task == [role |-> USER, content |-> frame'[ParentId].task]
                with_task == Append(cm.messages, task)
                near == NearLimit(with_task, tts[agent.token_tracker].max_tokens)
            IN  /\ frame'[ParentId].compact_called = near
                /\ cm1.messages[Len(cm1.messages)] = task
                /\ IF near /\ Len(with_task) > Kept(cm)
                   THEN /\ cm1.compaction_count = cm.compaction_count + 1
                        /\ Len(cm1.messages) = Kept(cm) + 1
                   ELSE /\ cm1.compaction_count = cm.compaction_count
                        /\ cm1.messages = with_task
        /\ \A i \in 1..Len(subs) :
            SubChecksLimit(i) =>
              LET cm == cms[subs[i].context_manager]
                  cm1 == cms'[subs[i].context_manager]
                  near == NearLimit(cm.messages, tts[subs[i].token_tracker].max_tokens)
                  n1 == Len(cm1.messages)
              IN  /\ frame'[i].compact_called = near
                  /\ cm.messages[Len(cm.messages)].role = USER
                  /\ cm1.messages[n1].role = ASSISTANT
                  /\ cm1.messages[n1 - 1] = cm.messages[Len(cm.messages)]
                  /\ IF near /\ Len(cm.messages) > Kept(cm)
                     THEN /\ cm1.compaction_count = cm.compaction_count + 1
                          /\ n1 = Kept(cm) + 2
                     ELSE /\ cm1.compaction_count = cm.compaction_count
                          /\ SubSeq(cm1.messages, 1, n1 - 1) = cm.messages ]_vars

\* the ReactAgent's run() at the executor call, having compacted a window
\* that had reached the threshold exactly, while a subagent's run() had
\* compacted too
C31_Witness ==
    /\ frame[ParentId].pc = "invoke"
    /\ frame[ParentId].compact_called
    /\ 10 * count_messages_tokens(frame[ParentId].messages)
            = 7 * tts[agent.token_tracker].max_tokens
    /\ cms[agent.context_manager].compaction_count = 1

\* a subagent's run() that compacted its window before the response
C31_SubWitness ==
    \E i \in 1..Len(subs) :
        /\ frame[i].pc = "finish"
        /\ frame[i].compact_called
        /\ cms[subs[i].context_manager].compaction_count = 1

\* runs that found the window below the limit
C31_BelowWitness ==
    /\ frame[ParentId].pc = "invoke"
    /\ ~frame[ParentId].compact_called
    /\ Len(cms[agent.context_manager].messages) = 12

\* C32: of two compact() calls in a row, the second is a no-op (returns 0,
\* messages and compaction_count unchanged) exactly when the window the
\* first call left has at most keep_first_n + keep_last_n messages;
\* otherwise it compacts the new middle again, replacing any earlier summary
\* message, and increments compaction_count once more.
C32_SecondCompactNoopOrCompactsAgain ==
    [][ \A w \in Windows :
          (last.op = "compact" /\ last.w = w /\ last'.op = "compact" /\ last'.w = w) =>
            LET before == win[w].messages
                after == win'[w].messages
                f == win[w].compaction_strategy.keep_first_n
                l == win[w].compaction_strategy.keep_last_n
                middle == MiddleSegment(before, f, l)
                noop == /\ last'.ret = 0
                        /\ after = before
                        /\ win'[w].compaction_count = win[w].compaction_count
            IN  /\ noop <=> Len(before) <= f + l
                /\ Len(before) > f + l =>
                    /\ win'[w].compaction_count = win[w].compaction_count + 1
                    /\ after =
                          FirstN(before, f)
                          \o (IF win[w].compaction_strategy.summarize_middle
                              THEN << [role |-> SYSTEM,
                                       content |->
                                         "[Context Summary - " \o ToString(Len(middle))
                                         \o " messages compressed]\n"
                                         \o _summarize_messages(middle)] >>
                              ELSE << >>)
                          \o LastN(before, l) ]_vars

\* the ContextManager object of an agent
CmOf(id) == IF id = ParentId THEN agent.context_manager ELSE subs[id].context_manager

\* agent id's run() returns in this step
RunReturns(id) == frame[id].pc \in {"invoke", "finish"} /\ frame'[id].pc = "idle"

\* C33: whenever run() finds the window near the limit while it holds more
\* than keep_first_n + keep_last_n messages, the window holds at most
\* keep_first_n + keep_last_n + 2 messages when that run() returns.
C33_NearLimitRunBoundsWindow ==
    [][ \A id \in AgentIds :
          ( /\ RunReturns(id)
            /\ frame[id].compact_called
            /\ frame[id].n0 + 1 > Kept(cms[CmOf(id)]) )
          => Len(cms'[CmOf(id)].messages) <= Kept(cms[CmOf(id)]) + 2 ]_vars

\* the ReactAgent back from its second near-limit run() in a row, the window
\* compacted twice and at the bound
C33_Witness ==
    /\ frame[ParentId].pc = "idle"
    /\ ret[ParentId].op = "run"
    /\ cms[agent.context_manager].compaction_count = 2
    /\ Len(cms[agent.context_manager].messages)
            = Kept(cms[agent.context_manager]) + 2

----------------------------------------------------------------------------
(* Claims about the usage run() records *)

\* the TokenTracker object of an agent
TtOf(id) == IF id = ParentId THEN agent.token_tracker ELSE subs[id].token_tracker

\* C34: usage is recorded exactly for successful runs: a run() that obtains
\* a response appends exactly one usage record and a run() whose executor
\* fails appends none, so interaction_count equals the number of successful
\* run() calls since creation or the last reset() (for a subagent whose runs
\* all succeeded, its execution_count).
C34_UsageRecordedPerSuccessfulRun ==
    /\ [](\A i \in 1..Len(subs) :
            frame[i].pc = "idle" =>
                get_total_usage(tts[TtOf(i)]).interaction_count
                    = subs[i].execution_count)
    /\ [][ \A id \in AgentIds :
            LET before == Len(tts[TtOf(id)].usage_history)
                after == Len(tts'[TtOf(id)].usage_history)
                responds ==
                    IF id = ParentId
                    THEN RunReturns(id) /\ ret'[id].executor = "ok"
                    ELSE frame[id].pc = "loop" /\ frame'[id].pc = "finish"
            IN  /\ responds => after = before + 1
                /\ ~responds => after \in {before, 0}
                /\ (RunReturns(id) /\ ~responds) => after = before ]_vars

\* the newest usage record of a tracker
LastUsage(tt) == tt.usage_history[Len(tt.usage_history)]

\* C35: the prompt_tokens a run() records equals count_messages of the
\* window as it stands when the executor is called, after any compaction
\* performed in that run and before the Assistant message is appended, for
\* ReactAgent.run and for Subagent.run.
C35_PromptTokensCountWindowAtCall ==
    [][ /\ (RunReturns(ParentId) /\ ret'[ParentId].executor = "ok") =>
                LastUsage(tts'[agent.token_tracker]).prompt_tokens
                    = count_messages_tokens(cms[agent.context_manager].messages)
        /\ \A i \in 1..Len(subs) :
              SubChecksLimit(i) =>
                LET after == cms'[subs[i].context_manager].messages
                IN  LastUsage(tts'[subs[i].token_tracker]).prompt_tokens
                        = count_messages_tokens(SubSeq(after, 1, Len(after) - 1)) ]_vars

\* C36: after any sequence of successful Subagent.run() calls since creation
\* or the last reset(), Subagent.total_tokens_used equals the total_tokens
\* the subagent's token tracker reports.
C36_TotalTokensUsedMatchesTracker ==
    \A i \in 1..Len(subs) :
        frame[i].pc = "idle" =>
            subs[i].total_tokens_used
                = get_total_usage(tts[subs[i].token_tracker]).total_tokens

----------------------------------------------------------------------------
(* Claims about the system prompt in the window *)

SystemPromptOf(id) == IF id = ParentId THEN agent.system_prompt ELSE subs[id].system_prompt

\* C37: in every reachable state of a ReactAgent or Subagent (after
\* construction and any sequence of run(), reset() and run-triggered
\* compactions) the window is non-empty and its first message is the System
\* message whose content is the agent's system_prompt.
C37_SystemPromptStaysFirst ==
    \A id \in AgentIds :
        /\ cms[CmOf(id)].messages # << >>
        /\ cms[CmOf(id)].messages[1]
                = [role |-> SYSTEM, content |-> SystemPromptOf(id)]

\* the ReactAgent back from a run() that compacted its window, next to a
\* subagent
C37_Witness ==
    /\ frame[ParentId].pc = "idle"
    /\ ret[ParentId].op = "run"
    /\ cms[agent.context_manager].compaction_count = 1
    /\ Len(subs) = 1
    /\ C37_SystemPromptStaysFirst

----------------------------------------------------------------------------
(* Claims about the agent graph *)

\* the elements of a list
Range(list) == { list[k] : k \in 1..Len(list) }

\* the ReactAgent, idle, is called with the operation and returns in this step
Called(op) ==
    /\ frame[ParentId].pc = "idle"
    /\ frame'[ParentId].pc = "idle"
    /\ ret'[ParentId].op = op

\* C38: the agent graph is built lazily and cached: add_tool() appends
\* exactly one tool and clears the cache, as does a successful
\* add_mcp_server(), so the graph the next run() uses is built from every
\* tool then registered; otherwise consecutive run() calls reuse the same
\* graph, and no run() uses a graph that omits a tool added through
\* add_tool().
C38_GraphRebuiltAfterToolChange ==
    [][ /\ Called("add_tool") =>
            /\ agent'.tools = Append(agent.tools, ret'[ParentId].tool)
            /\ agent'.agent_graph = NoGraph
        /\ ~Called("add_tool") => agent'.tools = agent.tools
        /\ (Called("add_mcp_server") /\ ret'[ParentId].value)
            => agent'.agent_graph = NoGraph
        /\ RunReturns(ParentId) =>
            /\ agent'.agent_graph.built
            /\ agent'.agent_graph =
                    IF agent.agent_graph = NoGraph
                    THEN [built |-> TRUE,
                          tools |-> agent.tools \o agent.mcp_tools,
                          state_modifier |-> agent.system_prompt]
                    ELSE agent.agent_graph
            /\ Range(agent.tools) \subseteq Range(agent'.agent_graph.tools)
            /\ Len(agent'.agent_graph.tools) >= Len(agent.tools) ]_vars

\* a run() that reused the graph built after add_tool() and a tool created
\* on the MCP client
C38_Witness ==
    /\ frame[ParentId].pc = "idle"
    /\ ret[ParentId].op = "run"
    /\ agent.agent_graph # NoGraph
    /\ agent.agent_graph.tools = BuiltinTools \o << "custom_tool", "lookup" >>
    /\ agent.tools = BuiltinTools \o << "custom_tool" >>
    /\ "mcp" \in DOMAIN agent.mcp_servers
    /\ Len(tts[agent.token_tracker].usage_history) = 2

----------------------------------------------------------------------------
(* Claims about the two compaction counters *)

\* C39: ContextManager.compaction_count equals metadata['compactions'] in
\* every state reachable through add_message, clear, compact,
\* export_context and import_context of a previously exported window.
C39_CompactionCountersAgree ==
    \A w \in Windows : win[w].compaction_count = win[w].metadata.compactions

\* a window compacted twice and then restored from the export made after
\* its first compaction
C39_Witness ==
    /\ last.op = "import_context"
    /\ last.pre.compaction_count = 2
    /\ win[last.w].compaction_count = 1
    /\ win[last.w].metadata.compactions = 1

====
